---- MODULE Spec2Model ----
(***************************************************************************)
(* Model of the prediction pipeline and the user routes of cap-be:         *)
(*   src/trainedmodels/alzaimerpark.py  (model handle, validator,          *)
(*                                       preprocessor, inference)          *)
(*   src/routes/prediction_routes.py    (the /predict request handler)     *)
(*   src/routes/user_routes.py          (register, login)                  *)
(*   src/models/user.py                 (the users table and the           *)
(*                                       operations on it)                 *)
(*                                                                         *)
(* The specifications of the module:                                       *)
(*   Spec     - the threaded server (src/server.py runs Flask with         *)
(*              threaded=True): request threads running /predict and a     *)
(*              loader running load_model/reload_model, interleaved at     *)
(*              every read and write of the module global MODEL.           *)
(*   SpecImg  - the pure image functions applied to every image of a       *)
(*              bounded domain.                                            *)
(*   SpecLoad - two threads running load_model/reload_model.               *)
(*   SpecHealth - load_model and the health check of the prediction       *)
(*              blueprint.                                                 *)
(*   SpecUser - concurrent registrations on the users table, with a caller *)
(*              of delete_user and the operations on the table itself.     *)
(*   SpecLogin - logins on a filled users table, with a caller of          *)
(*              delete_user, update_user and change_password.              *)
(*   SpecOps  - two callers of delete_user, update_user and                *)
(*              change_password, interleaved at every round trip.          *)
(*   SpecPred - the result construction of image_prediction and the result *)
(*              mapping of predict() applied to every classifier output    *)
(*              of a bounded domain.                                       *)
(***************************************************************************)
EXTENDS Integers, Sequences, FiniteSets, TLC

VARIABLES
    MODEL,      \* alzaimerpark.MODEL: None or the loaded model object
    artifact,   \* the file at MODEL_PATH: "missing", "corrupt" or a classifier
    lpc,        \* position of each thread that runs load_model
    building,   \* the object tf.keras.models.load_model is constructing
    lexc,       \* exception in flight inside load_model ("none" if none)
    lres,       \* outcome of the last load_model call each thread finished
    loads,      \* number of load_model calls started so far
    stdout,     \* what print() writes to: sys.stdout as the deployment set it
    imported,   \* the import of trainedmodels.alzaimerpark (server.py line 17)
    pc,         \* position of each request thread in predict()
    rq,         \* locals and history of each request thread
    ipc,        \* SpecImg: position of the image pipeline
    img,        \* SpecImg: the image bytes under test
    vres,       \* SpecImg: result of validate_image_for_medical_scan
    pres,       \* SpecImg: outcome of preprocess_image_from_bytes
    clean,      \* history: the artifact has not changed since this load began
    since,      \* history: loads completed on the artifact as it is now
    first,      \* history: what the first of these loads left behind
    ppc,        \* SpecPred: position of the result pipeline
    pprd,       \* SpecPred: the array MODEL.predict returned
    pout,       \* SpecPred: the result image_prediction builds from it
    ppay,       \* SpecPred: outcome of the result mapping of predict()
    hres,       \* SpecHealth: the last answer of GET /health
    store,      \* SpecUser: the rows of the users table
    nextId,     \* SpecUser: the next value of the id sequence
    logins,     \* SpecUser: successful logins so far (the clock of last_login)
    tables,     \* SpecUser: the users table exists (create_tables, drop_tables)
    uq          \* SpecUser: the request each user-route thread is serving

vars == <<MODEL, artifact, lpc, building, lexc, lres, loads, stdout, imported,
          clean, since, first, pc, rq,
          ipc, img, vres, pres, ppc, pprd, pout, ppay, hres,
          store, tables, nextId, logins, uq>>

srvVars == <<MODEL, artifact, lpc, building, lexc, lres, loads, stdout, imported,
             clean, since, first, pc, rq>>
imgVars == <<ipc, img, vres, pres>>
predVars == <<ppc, pprd, pout, ppay>>
healthVars == <<hres>>
userVars == <<store, tables, nextId, logins, uq>>

(***************************************************************************)
(* Bounds of the model.                                                    *)
(***************************************************************************)
MaxPixels == 3      \* images have at most MaxPixels pixels (width * height)
MaxLoads == 2       \* load_model is called at most MaxLoads times
MaxClasses == 4     \* SpecPred: the classifier has at most MaxClasses outputs
MaxRegistrations == 2   \* SpecUser: registrations start while fewer ids are used
MaxLogins == 2      \* SpecUser: logins start while fewer have succeeded

(***************************************************************************)
(* Program constants.                                                      *)
(***************************************************************************)
None == [none |-> TRUE]
TARGET_SIZE == 150          \* .resize((150, 150))
COLOR_DIFF_THRESHOLD == 20  \* if color_diff > 20

(***************************************************************************)
(* Call outcomes: a Python call either returns a value or raises.          *)
(***************************************************************************)
Return(v) == [kind |-> "return", val |-> v]
Raise(type, msg) == [kind |-> "raise", type |-> type, msg |-> msg]

(***************************************************************************)
(* Images.  The bytes of an upload are modelled by what PIL makes of them: *)
(*   kind "bad"    Image.open raises (not an image)                        *)
(*   kind "trunc"  Image.open succeeds, loading the pixel data raises      *)
(*   kind "ok"     decodable, with a PIL mode, a size and pixel data       *)
(* px is the row-major sequence of pixels, each a tuple of band values.    *)
(***************************************************************************)
Modes == {"1", "L", "P", "LA", "RGB", "RGBA"}

Bands(mode) ==
    CASE mode = "1" -> 1
      [] mode = "L" -> 1
      [] mode = "P" -> 1
      [] mode = "LA" -> 2
      [] mode = "RGB" -> 3
      [] mode = "RGBA" -> 4

\* numpy dtype of np.array(image): mode "1" gives bool, the others uint8
Dtype(mode) == IF mode = "1" THEN "bool" ELSE "uint8"

\* pixels of the domain.  The RGB pixels are two grays, one pixel whose
\* three differences sum to 20, one above the threshold, and two more that
\* with the black pixel average to exactly 20 over three pixels.
RgbPixels == {<<0, 0, 0>>, <<11, 11, 11>>, <<10, 5, 0>>, <<1, 20, 0>>, <<11, 0, 0>>}
RgbaPixels == {<<0, 0, 0, 255>>, <<11, 11, 11, 0>>, <<11, 0, 0, 255>>, <<0, 11, 0, 0>>}
GrayVals == {0, 11}
AlphaVals == {0, 255}
BitVals == {0, 1}

PixelsOf(mode) ==
    CASE mode = "1" -> {<<v>> : v \in BitVals}
      [] mode = "L" -> {<<v>> : v \in GrayVals}
      [] mode = "P" -> {<<v>> : v \in GrayVals}
      [] mode = "LA" -> {<<v, a>> : v \in GrayVals, a \in AlphaVals}
      [] mode = "RGB" -> RgbPixels
      [] mode = "RGBA" -> RgbaPixels

Dims == {d \in (1..MaxPixels) \X (1..MaxPixels) : d[1] * d[2] <= MaxPixels}

BadImage == [kind |-> "bad", mode |-> "L", w |-> 1, h |-> 1, px |-> <<>>]
TruncImage == [kind |-> "trunc", mode |-> "L", w |-> 1, h |-> 1, px |-> <<>>]

\* a decodable image of mode m and size d = <<w, h>> with pixel data s
OkImage(m, d, s) == [kind |-> "ok", mode |-> m, w |-> d[1], h |-> d[2], px |-> s]

\* the image is one of the domain
IsDomainImage(im) ==
    \/ im \in {BadImage, TruncImage}
    \/ \E m \in Modes : \E d \in Dims :
          \E s \in [1..(d[1] * d[2]) -> PixelsOf(m)] : im = OkImage(m, d, s)

(***************************************************************************)
(* numpy / PIL / cv2 helpers.                                              *)
(***************************************************************************)
\* np.array(image): a 2-D array for single-band modes, (h, w, bands) otherwise
NpArray(im) ==
    [shape |-> IF Bands(im.mode) = 1 THEN <<im.h, im.w>>
               ELSE <<im.h, im.w, Bands(im.mode)>>,
     dtype |-> Dtype(im.mode),
     w |-> im.w, h |-> im.h,
     data |-> im.px]

Abs(x) == IF x < 0 THEN 0 - x ELSE x

\* sum over all pixels of |channel i - channel j|
RECURSIVE SumAbsDiff(_, _, _)
SumAbsDiff(data, i, j) ==
    IF data = <<>> THEN 0
    ELSE Abs(Head(data)[i] - Head(data)[j]) + SumAbsDiff(Tail(data), i, j)

(***************************************************************************)
(* float64 arithmetic.  A non-negative double below 2^FloatIntBits is the  *)
(* sequence of its binary digits, most significant first: FloatIntBits     *)
(* places before the point and FloatFracBits after it.  Every double that  *)
(* is zero or at least 2^-11 is such a sequence, which covers the means of *)
(* images of up to 2048 pixels.                                            *)
(***************************************************************************)
MANT_DIG == 53          \* sys.float_info.mant_dig
FloatIntBits == 10
FloatLimbBits == 16
FloatLimbs == 4
FloatFracBits == FloatLimbBits * FloatLimbs
FloatWidth == FloatIntBits + FloatFracBits

\* the binary digits of n in k places
IntToBits(n, k) == <<>> \o [i \in 1..k |-> (n \div 2 ^ (k - i)) % 2]

RECURSIVE BitsToInt(_)
BitsToInt(b) ==
    IF b = <<>> THEN 0 ELSE 2 * BitsToInt(SubSeq(b, 1, Len(b) - 1)) + b[Len(b)]

\* long division of r by n, for 0 <= r < n, in digits of FloatLimbBits binary
\* places: the first k digits of the fraction, and what is left over
RECURSIVE FracLimbDigits(_, _, _)
FracLimbDigits(r, n, k) ==
    IF k = 0 THEN <<>>
    ELSE <<(r * 2 ^ FloatLimbBits) \div n>>
             \o FracLimbDigits((r * 2 ^ FloatLimbBits) % n, n, k - 1)

RECURSIVE FracRemainder(_, _, _)
FracRemainder(r, n, k) ==
    IF k = 0 THEN r ELSE FracRemainder((r * 2 ^ FloatLimbBits) % n, n, k - 1)

\* the first FloatFracBits binary places of r / n
FracDigits(r, n) ==
    LET limbs == FracLimbDigits(r, n, FloatLimbs)
    IN  <<>> \o [i \in 1..FloatFracBits |->
                   (limbs[((i - 1) \div FloatLimbBits) + 1]
                       \div 2 ^ (FloatLimbBits - 1 - ((i - 1) % FloatLimbBits))) % 2]

\* b plus one unit in place p: the carry runs up to the nearest 0
AddUnit(b, p) ==
    IF \A i \in 1..p : b[i] = 1 THEN b
    ELSE LET z == CHOOSE i \in 1..p :
                      b[i] = 0 /\ \A k \in (i + 1)..p : b[k] = 1
         IN  <<>> \o [i \in 1..Len(b) |->
                        IF i = z THEN 1
                        ELSE IF i > z /\ i <= p THEN 0
                        ELSE b[i]]

\* IEEE 754 round-to-nearest, ties to even, to MANT_DIG significant digits:
\* b holds the leading digits of the exact value, inexact says that digits
\* beyond b are not all zero
RoundToDouble(b, inexact) ==
    IF \A i \in 1..Len(b) : b[i] = 0 THEN b
    ELSE LET lead == CHOOSE t \in 1..Len(b) :
                         b[t] = 1 /\ \A u \in 1..(t - 1) : b[u] = 0
             last == lead + MANT_DIG - 1
         IN  IF last >= Len(b) THEN b
             ELSE LET half == b[last + 1] = 1
                      rest == inexact \/ \E i \in (last + 2)..Len(b) : b[i] = 1
                      kept == SubSeq(b, 1, last) \o IntToBits(0, Len(b) - last)
                  IN  IF half /\ (rest \/ b[last] = 1)
                      THEN AddUnit(kept, last) ELSE kept

\* float(s) / n for integers s >= 0, n > 0
FloatDiv(s, n) ==
    RoundToDouble(IntToBits(s \div n, FloatIntBits)
                      \o FracDigits(s % n, n),
                  FracRemainder(s % n, n, FloatLimbs) # 0)

\* the carry into place i of a + b: some lower place generates one and every
\* place between passes it on
CarryInto(a, b, i) ==
    \E j \in (i + 1)..Len(a) :
        /\ a[j] = 1 /\ b[j] = 1
        /\ \A k \in (i + 1)..(j - 1) : a[k] + b[k] = 1

\* the digits of the exact sum of a and b
ExactSum(a, b) ==
    <<>> \o [i \in 1..Len(a) |->
                (a[i] + b[i] + (IF CarryInto(a, b, i) THEN 1 ELSE 0)) % 2]

\* a + b
FloatAdd(a, b) == RoundToDouble(ExactSum(a, b), FALSE)

\* a > k for an integer k
FloatGreater(a, k) ==
    LET whole == BitsToInt(SubSeq(a, 1, FloatIntBits))
    IN  \/ whole > k
        \/ whole = k /\ \E i \in (FloatIntBits + 1)..Len(a) : a[i] = 1

\* np.mean(np.abs(ci.astype(float) - cj.astype(float))): the sum of the
\* differences is an integer and exact, the division rounds
MeanAbsDiff(a, i, j) == FloatDiv(SumAbsDiff(a.data, i, j), Len(a.data))

\* a slip of ColorDiff: the R-B term is left out
ColorDiffTwoTerms(a) ==
    FloatAdd(MeanAbsDiff(a, 1, 2), MeanAbsDiff(a, 2, 3))

\* color_diff (lines 75-77): the three means, added from left to right
ColorDiff(a) ==
    FloatAdd(FloatAdd(MeanAbsDiff(a, 1, 2), MeanAbsDiff(a, 2, 3)),
             MeanAbsDiff(a, 1, 3))

\* color_diff > 20 (line 80)
ColorDiffExceeds(a) == FloatGreater(ColorDiff(a), COLOR_DIFF_THRESHOLD)

\* Image.resize((150, 150)): the size becomes 150 x 150 whatever it was, the
\* mode is kept.  The resampled pixel data is not materialised: the array
\* keeps the source samples it was resampled from and their layout (w, h).
Resize(im) ==
    [kind |-> im.kind, mode |-> im.mode, w |-> TARGET_SIZE, h |-> TARGET_SIZE,
     srcw |-> im.w, srch |-> im.h, px |-> im.px]

NpArrayResized(rim) ==
    [shape |-> IF Bands(rim.mode) = 1 THEN <<rim.h, rim.w>>
               ELSE <<rim.h, rim.w, Bands(rim.mode)>>,
     dtype |-> Dtype(rim.mode),
     w |-> rim.srcw, h |-> rim.srch,
     data |-> rim.px]

\* cv2.cvtColor(a, cv2.COLOR_GRAY2RGB): the single channel is replicated;
\* cv2 rejects bool arrays
\* a slip of GrayToRgbPixel: the gray level goes to the red channel only
GrayToRgbPixelRedOnly(p) == <<p[1], 0, 0>>

\* one pixel of cv2.COLOR_GRAY2RGB
GrayToRgbPixel(p) == <<p[1], p[1], p[1]>>
CvtGray2Rgb(a) ==
    IF a.dtype = "bool"
    THEN Raise("cv2.error", <<"src data type = bool is not supported">>)
    ELSE Return([a EXCEPT !.shape = <<a.shape[1], a.shape[2], 3>>,
                          !.data = [k \in 1..Len(a.data) |-> GrayToRgbPixel(a.data[k])]])

\* cv2.cvtColor(a, cv2.COLOR_RGBA2RGB): the alpha channel is dropped
RgbaToRgbPixel(p) == <<p[1], p[2], p[3]>>
CvtRgba2Rgb(a) ==
    Return([a EXCEPT !.shape = <<a.shape[1], a.shape[2], 3>>,
                     !.data = [k \in 1..Len(a.data) |-> RgbaToRgbPixel(a.data[k])]])

\* np.expand_dims(a, axis=0)
ExpandDims(a) == [a EXCEPT !.shape = <<1>> \o a.shape]

(***************************************************************************)
(* validate_image_for_medical_scan                                         *)
(***************************************************************************)
REASON_COLOR == "This appears to be a color photograph. Please upload a medical scan (MRI, CT, X-ray, etc.)."
REASON_ACCEPTED == "Image accepted for analysis."
REASON_SKIPPED == "Validation skipped due to error."

\* the try block (lines 64-90): a result, or the exception that leaves it
ValidateTry(im) ==
    IF im.kind = "bad"
    THEN Raise("UnidentifiedImageError", <<"cannot identify image file">>)
    ELSE IF im.kind = "trunc"
    THEN Raise("OSError", <<"image file is truncated">>)
    ELSE LET a == NpArray(im) IN
         IF Len(a.shape) = 3
         THEN IF a.shape[3] < 3
              THEN Raise("IndexError", <<"index 2 is out of bounds for axis 2">>)
              ELSE IF ColorDiffExceeds(a)
                   THEN Return([is_valid |-> FALSE, reason |-> REASON_COLOR])
                   ELSE Return([is_valid |-> TRUE, reason |-> REASON_ACCEPTED])
         ELSE Return([is_valid |-> TRUE, reason |-> REASON_ACCEPTED])

\* a slip of ValidateExcept: a validation error rejects the image
ValidateExceptRejects(e) == Return([is_valid |-> FALSE, reason |-> REASON_SKIPPED])

\* the except clause (lines 92-98)
ValidateExcept(e) == Return([is_valid |-> TRUE, reason |-> REASON_SKIPPED])

validate_image_for_medical_scan(im) ==
    LET r == ValidateTry(im) IN
    IF r.kind = "raise" THEN ValidateExcept(r) ELSE r

(***************************************************************************)
(* preprocess_image_from_bytes                                             *)
(***************************************************************************)
\* lines 120-123: the channel handling after the resize
NormalizeChannels(a) ==
    IF Len(a.shape) = 2 THEN CvtGray2Rgb(a)
    ELSE IF a.shape[Len(a.shape)] = 4 THEN CvtRgba2Rgb(a)
    ELSE Return(a)

\* a slip of PreprocessTry: the validator is not called
PreprocessTryWithoutValidation(im) ==
    IF im.kind = "bad"
    THEN Raise("UnidentifiedImageError", <<"cannot identify image file">>)
    ELSE IF im.kind = "trunc"
    THEN Raise("OSError", <<"image file is truncated">>)
    ELSE LET c == NormalizeChannels(NpArrayResized(Resize(im))) IN
         IF c.kind = "raise" THEN c ELSE Return(ExpandDims(c.val))

\* the try block (lines 110-126)
PreprocessTry(im) ==
    LET v == validate_image_for_medical_scan(im) IN
    IF v.kind = "raise" THEN v
    ELSE IF ~v.val.is_valid THEN Raise("ValueError", <<v.val.reason>>)
    ELSE IF im.kind = "bad"
    THEN Raise("UnidentifiedImageError", <<"cannot identify image file">>)
    ELSE IF im.kind = "trunc"
    THEN Raise("OSError", <<"image file is truncated">>)
    ELSE LET c == NormalizeChannels(NpArrayResized(Resize(im))) IN
         IF c.kind = "raise" THEN c ELSE Return(ExpandDims(c.val))

\* a slip of PreprocessExcept: the cause is left out of the message
PreprocessExceptGeneric(e) ==
    Raise("ValueError", <<"Failed to preprocess image">>)

\* a slip of PreprocessExcept: the handler logs and re-raises what it caught
PreprocessExceptReraises(e) == e

\* the except clause (lines 127-129)
PreprocessExcept(e) ==
    Raise("ValueError", <<"Failed to preprocess image: ">> \o e.msg)

preprocess_image_from_bytes(im) ==
    LET r == PreprocessTry(im) IN
    IF r.kind = "raise" THEN PreprocessExcept(r) ELSE r

(***************************************************************************)
(* SpecImg: the image functions applied to every image of the domain.      *)
(***************************************************************************)
NoResult == [kind |-> "none"]

InitImg ==
    /\ ipc = "start"
    /\ IsDomainImage(img)
    /\ vres = NoResult
    /\ pres = NoResult

Validate ==
    /\ ipc = "start"
    /\ vres' = validate_image_for_medical_scan(img)
    /\ ipc' = "validated"
    /\ UNCHANGED <<img, pres, srvVars, predVars, healthVars, userVars>>

Preprocess ==
    /\ ipc = "validated"
    /\ pres' = preprocess_image_from_bytes(img)
    /\ ipc' = "done"
    /\ UNCHANGED <<img, vres, srvVars, predVars, healthVars, userVars>>

(***************************************************************************)
(* load_model / reload_model                                               *)
(***************************************************************************)
\* The file at MODEL_PATH is missing, does not deserialize, or holds one of
\* the classifiers of Nets.
Nets == {"netA", "net4"}
Artifacts == {"missing", "corrupt"} \cup Nets

\* the object tf.keras.models.load_model constructs from the file
PartialModel(net) == [net |-> net, complete |-> FALSE]
CompleteModel(m) == [m EXCEPT !.complete = TRUE]

NoExc == [kind |-> "none"]

\* line 193-195
is_model_loaded(model) == model # None

\* MODEL.output_shape: (None, number of classes)
OutputUnits(net) == IF net = "net4" THEN 4 ELSE 3

\* lines 169-190 (the path is a constant of the deployment)
get_model_info(model, art) ==
    IF model = None
    THEN [loaded |-> FALSE, exists |-> art # "missing"]
    ELSE [loaded |-> TRUE, exists |-> art # "missing",
          input_shape |-> <<None, TARGET_SIZE, TARGET_SIZE, 3>>,
          output_shape |-> <<None, OutputUnits(model.net)>>,
          model_type |-> "Functional"]

\* what a finished load leaves behind
LoadedState(model, art) ==
    [model |-> model, loaded |-> is_model_loaded(model),
     info |-> get_model_info(model, art)]

\* the threads that call load_model: the one that imports the module (line
\* 51) and calls reload_model later, and a second caller of reload_model
Loaders == {"m1", "m2"}
MainLoader == "m1"

\* sys.stdout: a UTF-8 stream, a stream whose encoding has no emoji (ascii,
\* cp1252), a UTF-8 stream whose next write reaches a pipe that nothing
\* reads any more ("broken"), or a stream that has been closed
StdoutStates == {"utf-8", "ascii", "broken", "closed"}

\* print(msg) of a message that holds U+2705 or U+274C (lines 40 and 44-45).
\* The stream checks that it is open, then encodes the text, then writes it:
\* a closed stream raises ValueError whatever its encoding, and a stream that
\* cannot encode the text raises before anything is written.
PrintEmoji(out) ==
    CASE out = "closed" ->
            Raise("ValueError", <<"I/O operation on closed file.">>)
      [] out = "ascii" ->
            Raise("UnicodeEncodeError", <<"'ascii' codec can't encode character">>)
      [] out = "broken" ->
            Raise("BrokenPipeError", <<"[Errno 32] Broken pipe">>)
      [] out = "utf-8" -> Return(None)

\* history of the load_model calls that ran from call to end on the artifact
\* as it is now, one after another: their number, and the state the first of
\* them left.  A call that began on an earlier artifact, or that overlapped
\* another call, starts the count again.
LoadEnds(l, model) ==
    /\ clean' = [clean EXCEPT ![l] = FALSE]
    /\ IF clean[l]
       THEN /\ since' = since + 1
            /\ first' = IF since = 0 THEN LoadedState(model, artifact) ELSE first
       ELSE /\ since' = 0
            /\ first' = NoResult

\* the call of line 51 ends: the import of the module goes on, or fails with
\* the exception that left load_model
ImportEnds(out) ==
    imported' = IF imported # "running" THEN imported
                ELSE IF out.kind = "return" THEN "done" ELSE "failed"

\* load_model() is called: by the import (line 51), and once the module is
\* imported through reload_model (lines 197-199)
LoadCall(l) ==
    /\ lpc[l] = "idle"
    /\ loads < MaxLoads
    /\ IF loads = 0 THEN l = MainLoader /\ imported = "running"
       ELSE imported = "done"
    /\ loads' = loads + 1
    /\ lpc' = [lpc EXCEPT ![l] = "exists"]
    /\ clean' = [k \in Loaders |->
                    k = l /\ \A m \in Loaders \ {l} : lpc[m] = "idle"]
    /\ UNCHANGED <<MODEL, artifact, building, lexc, lres, stdout, imported,
                   since, first, pc, rq, imgVars, predVars, healthVars, userVars>>

\* lines 23-24: os.path.exists(MODEL_PATH)
LoadExists(l) ==
    /\ lpc[l] = "exists"
    /\ IF artifact = "missing"
       THEN /\ lexc' = [lexc EXCEPT ![l] =
                           Raise("FileNotFoundError", <<"Model file not found">>)]
            /\ lpc' = [lpc EXCEPT ![l] = "except"]
       ELSE /\ lpc' = [lpc EXCEPT ![l] = "open"]
            /\ UNCHANGED lexc
    /\ UNCHANGED <<MODEL, artifact, building, lres, loads, stdout, imported,
                   clean, since, first, pc, rq, imgVars, predVars, healthVars,
                   userVars>>

\* a slip of LoadOpen: the model is built in place, in the global
LoadOpenPublishesPartial(l) ==
    /\ lpc[l] = "open"
    /\ IF artifact \in Nets
       THEN /\ building' = [building EXCEPT ![l] = PartialModel(artifact)]
            /\ MODEL' = PartialModel(artifact)
            /\ lpc' = [lpc EXCEPT ![l] = "deser"]
            /\ UNCHANGED lexc
       ELSE /\ lexc' = [lexc EXCEPT ![l] = Raise("OSError", <<"Unable to open file">>)]
            /\ lpc' = [lpc EXCEPT ![l] = "except"]
            /\ UNCHANGED <<building, MODEL>>
    /\ UNCHANGED <<artifact, lres, loads, stdout, imported, clean, since, first,
                   pc, rq, imgVars, predVars, healthVars, userVars>>

\* line 39, right-hand side: tf.keras.models.load_model opens the file and
\* starts building the model; it raises when the file is gone by now or does
\* not deserialize
LoadOpen(l) ==
    /\ lpc[l] = "open"
    /\ IF artifact \in Nets
       THEN /\ building' = [building EXCEPT ![l] = PartialModel(artifact)]
            /\ lpc' = [lpc EXCEPT ![l] = "deser"]
            /\ UNCHANGED lexc
       ELSE /\ lexc' = [lexc EXCEPT ![l] = Raise("OSError", <<"Unable to open file">>)]
            /\ lpc' = [lpc EXCEPT ![l] = "except"]
            /\ UNCHANGED building
    /\ UNCHANGED <<MODEL, artifact, lres, loads, stdout, imported, clean, since,
                   first, pc, rq, imgVars, predVars, healthVars, userVars>>

\* a slip of LoadDeserialize: the custom layer can be registered once per
\* process, a second load fails
LoadDeserializeOncePerProcess(l) ==
    /\ lpc[l] = "deser"
    /\ IF loads > 1
       THEN /\ lexc' = [lexc EXCEPT ![l] =
                           Raise("ValueError", <<"DepthwiseConv2D has already been registered">>)]
            /\ building' = [building EXCEPT ![l] = None]
            /\ lpc' = [lpc EXCEPT ![l] = "except"]
       ELSE /\ building' = [building EXCEPT ![l] = CompleteModel(building[l])]
            /\ lpc' = [lpc EXCEPT ![l] = "assign"]
            /\ UNCHANGED lexc
    /\ UNCHANGED <<MODEL, artifact, lres, loads, stdout, imported, clean, since,
                   first, pc, rq, imgVars, predVars, healthVars, userVars>>

\* line 39, right-hand side: tf.keras.models.load_model finishes the model
LoadDeserialize(l) ==
    /\ lpc[l] = "deser"
    /\ building' = [building EXCEPT ![l] = CompleteModel(building[l])]
    /\ lpc' = [lpc EXCEPT ![l] = "assign"]
    /\ UNCHANGED <<MODEL, artifact, lexc, lres, loads, stdout, imported, clean,
                   since, first, pc, rq, imgVars, predVars, healthVars, userVars>>

\* line 39, the assignment: MODEL = <the loaded model>
LoadAssign(l) ==
    /\ lpc[l] = "assign"
    /\ MODEL' = building[l]
    /\ building' = [building EXCEPT ![l] = None]
    /\ lpc' = [lpc EXCEPT ![l] = "print"]
    /\ UNCHANGED <<artifact, lexc, lres, loads, stdout, imported, clean, since,
                   first, pc, rq, imgVars, predVars, healthVars, userVars>>

\* lines 40-41: print("... AI Model loaded successfully!") and logger.info.
\* The print is inside the try block: when it raises, the except clause runs
\* with MODEL already bound.
LoadPrint(l) ==
    /\ lpc[l] = "print"
    /\ LET out == PrintEmoji(stdout) IN
       IF out.kind = "raise"
       THEN /\ lexc' = [lexc EXCEPT ![l] = out]
            /\ lpc' = [lpc EXCEPT ![l] = "except"]
       ELSE /\ lpc' = [lpc EXCEPT ![l] = "return"]
            /\ UNCHANGED lexc
    /\ UNCHANGED <<MODEL, artifact, building, lres, loads, stdout, imported,
                   clean, since, first, pc, rq, imgVars, predVars, healthVars,
                   userVars>>

\* line 42: return MODEL, the global as it is now
LoadReturn(l) ==
    /\ lpc[l] = "return"
    /\ lres' = [lres EXCEPT ![l] = Return(MODEL)]
    /\ lpc' = [lpc EXCEPT ![l] = "idle"]
    /\ LoadEnds(l, MODEL)
    /\ ImportEnds(Return(MODEL))
    /\ UNCHANGED <<MODEL, artifact, building, lexc, loads, stdout, pc, rq,
                   imgVars, predVars, healthVars, userVars>>

\* an exception raised while the except clause handles another one: Python
\* sets its __context__ to the exception being handled
DuringHandling(e, handled) ==
    [kind |-> "raise", type |-> e.type, msg |-> e.msg, context |-> handled]

\* lines 43-46: except Exception as e: print(error_msg); logger.error.  When
\* the print raises, that exception leaves load_model and lines 47-48 do not
\* run.
LoadExcept(l) ==
    /\ lpc[l] = "except"
    /\ LET out == PrintEmoji(stdout) IN
       IF out.kind = "raise"
       THEN /\ lres' = [lres EXCEPT ![l] = DuringHandling(out, lexc[l])]
            /\ lexc' = [lexc EXCEPT ![l] = NoExc]
            /\ lpc' = [lpc EXCEPT ![l] = "idle"]
            /\ LoadEnds(l, MODEL)
            /\ ImportEnds(out)
       ELSE /\ lpc' = [lpc EXCEPT ![l] = "reset"]
            /\ UNCHANGED <<lres, lexc, clean, since, first, imported>>
    /\ UNCHANGED <<MODEL, artifact, building, loads, stdout, pc, rq, imgVars,
                   predVars, healthVars, userVars>>

\* lines 47-48: MODEL = None; return None
LoadExceptReset(l) ==
    /\ lpc[l] = "reset"
    /\ MODEL' = None
    /\ lres' = [lres EXCEPT ![l] = Return(None)]
    /\ lexc' = [lexc EXCEPT ![l] = NoExc]
    /\ lpc' = [lpc EXCEPT ![l] = "idle"]
    /\ LoadEnds(l, None)
    /\ ImportEnds(Return(None))
    /\ UNCHANGED <<artifact, building, loads, stdout, pc, rq, imgVars, predVars,
                   healthVars, userVars>>

\* the deployment replaces, removes or damages the file at MODEL_PATH
ArtifactChange ==
    /\ \E a \in Artifacts \ {artifact} : artifact' = a
    /\ clean' = [l \in Loaders |-> FALSE]
    /\ since' = 0
    /\ first' = NoResult
    /\ UNCHANGED <<MODEL, lpc, building, lexc, lres, loads, stdout, imported,
                   pc, rq, imgVars, predVars, healthVars, userVars>>

\* sys.stdout.close(), or the close of the descriptor by the process that
\* owns it: every print after it raises ValueError, on a stream of any
\* encoding
StdoutCloses ==
    /\ stdout # "closed"
    /\ stdout' = "closed"
    /\ UNCHANGED <<MODEL, artifact, lpc, building, lexc, lres, loads, imported,
                   clean, since, first, pc, rq, imgVars, predVars, healthVars,
                   userVars>>

\* the process that read the pipe behind sys.stdout has gone.  The stream
\* stays open; a write that reaches the pipe fails with EPIPE (an unbuffered
\* stream, or a buffered one whose buffer is full).  A stream that cannot
\* encode the text never gets as far as the write and stays "ascii".
StdoutPipeBreaks ==
    /\ stdout = "utf-8"
    /\ stdout' = "broken"
    /\ UNCHANGED <<MODEL, artifact, lpc, building, lexc, lres, loads, imported,
                   clean, since, first, pc, rq, imgVars, predVars, healthVars,
                   userVars>>

(***************************************************************************)
(* image_prediction                                                        *)
(***************************************************************************)
\* Probabilities are integers in units of 1/100.  prd is the array
\* MODEL.predict returns: one row per input tensor, one column per class.
RECURSIVE SeqMax(_)
SeqMax(row) ==
    IF Len(row) = 1 THEN row[1]
    ELSE LET m == SeqMax(Tail(row)) IN IF row[1] >= m THEN row[1] ELSE m

\* variant: the index of the last maximum of row 0
ArgmaxLast(row) ==
    (CHOOSE i \in 1..Len(row) :
        /\ row[i] = SeqMax(row)
        /\ \A j \in (i + 1)..Len(row) : row[j] # SeqMax(row)) - 1

\* np.argmax(prd, axis=1)[0]: 0-based index of the first maximum of row 0
Argmax(row) ==
    (CHOOSE i \in 1..Len(row) :
        /\ row[i] = SeqMax(row)
        /\ \A j \in 1..(i - 1) : row[j] # SeqMax(row)) - 1

\* np.max(prd): the maximum over the whole array
RECURSIVE ArrayMax(_)
ArrayMax(prd) ==
    IF Len(prd) = 1 THEN SeqMax(prd[1])
    ELSE LET m == ArrayMax(Tail(prd)) IN
         IF SeqMax(prd[1]) >= m THEN SeqMax(prd[1]) ELSE m

\* a slip of class_mapping: the labels of classes 1 and 2 are exchanged
ClassMappingExchanged(class_id) ==
    CASE class_id = 0 -> "CONTROL"
      [] class_id = 1 -> "PD"
      [] class_id = 2 -> "AD"
      [] OTHER -> "Unknown"

\* lines 151-157: class_mapping.get(class_id, "Unknown")
class_mapping(class_id) ==
    CASE class_id = 0 -> "CONTROL"
      [] class_id = 1 -> "AD"
      [] class_id = 2 -> "PD"
      [] OTHER -> "Unknown"

\* lines 147-164: the result built from the classifier's output
PredictionResult(prd) ==
    [prediction |-> class_mapping(Argmax(prd[1])),
     confidence |-> ArrayMax(prd),
     class_id |-> Argmax(prd[1]),
     raw_probabilities |-> prd]

\* lines 165-167: except Exception as e: raise ValueError("Prediction failed: ..")
ImagePredictionExcept(e) ==
    Raise("ValueError", <<"Prediction failed: ">> \o e.msg)

\* line 143: raise ValueError("Model not loaded")
ModelNotLoaded == Raise("ValueError", <<"Model not loaded">>)

\* line 146 evaluated with MODEL = None: None.predict
NoneHasNoPredict ==
    Raise("AttributeError", <<"'NoneType' object has no attribute 'predict'">>)

\* The classifiers.  A frozen network is a function of its input; the table
\* stands for the weights of the artifacts of Nets ("net4" is an artifact
\* trained with a fourth class).
NetOutput(net, tensor) ==
    LET v == tensor.data[1][1] IN
    CASE net = "netA" -> IF v = 0 THEN <<<<70, 20, 10>>>> ELSE <<<<20, 20, 60>>>>
      [] net = "net4" -> <<<<10, 20, 30, 40>>>>

INPUT_SHAPE == <<1, TARGET_SIZE, TARGET_SIZE, 3>>

\* MODEL.predict(image_array, verbose=0) on a loaded model: Keras refuses an
\* input whose shape does not match the network's input
Forward(model, tensor) ==
    IF tensor.shape # INPUT_SHAPE
    THEN Raise("ValueError", <<"Input 0 is incompatible with the layer">>)
    ELSE Return(NetOutput(model.net, tensor))

(***************************************************************************)
(* The /predict request handler (prediction_routes.predict)                *)
(***************************************************************************)
\* Request threads share nothing but MODEL, which they only read, and every
\* other value of predict() is local to the request: one request thread
\* running against the loader meets every interleaving a request can see.
Threads == {"t1"}

\* File names are sequences of ASCII characters.
UpperCase ==
    <<"A", "B", "C", "D", "E", "F", "G", "H", "I", "J", "K", "L", "M",
      "N", "O", "P", "Q", "R", "S", "T", "U", "V", "W", "X", "Y", "Z">>
LowerCase ==
    <<"a", "b", "c", "d", "e", "f", "g", "h", "i", "j", "k", "l", "m",
      "n", "o", "p", "q", "r", "s", "t", "u", "v", "w", "x", "y", "z">>

\* str.lower() on one character: every cased letter is lowered
Lower(c) ==
    IF \E k \in 1..Len(UpperCase) : UpperCase[k] = c
    THEN LowerCase[CHOOSE k \in 1..Len(UpperCase) : UpperCase[k] = c]
    ELSE c

LowerStr(f) == [k \in 1..Len(f) |-> Lower(f[k])]

HasDot(f) == \E k \in 1..Len(f) : f[k] = "."

LastDot(f) == CHOOSE k \in 1..Len(f) : f[k] = "." /\ \A j \in (k + 1)..Len(f) : f[j] # "."

\* line 58: file.filename.rsplit('.', 1)[1].lower() if '.' in file.filename else ''
\* a slip of FileExtension: the text between the first dot and the next
FileExtensionAfterFirstDot(f) ==
    IF HasDot(f)
    THEN LET d == CHOOSE k \in 1..Len(f) :
                      f[k] = "." /\ \A j \in 1..(k - 1) : f[j] # "."
             rest == SubSeq(f, d + 1, Len(f))
             e == IF HasDot(rest)
                  THEN CHOOSE k \in 1..Len(rest) :
                           rest[k] = "." /\ \A j \in 1..(k - 1) : rest[j] # "."
                  ELSE Len(rest) + 1
         IN  LowerStr(SubSeq(rest, 1, e - 1))
    ELSE <<>>

FileExtension(f) ==
    IF HasDot(f) THEN LowerStr(SubSeq(f, LastDot(f) + 1, Len(f))) ELSE <<>>

SUPPORTED_FORMATS ==
    {<<"p", "n", "g">>, <<"j", "p", "g">>, <<"j", "p", "e", "g">>,
     <<"g", "i", "f">>, <<"b", "m", "p">>, <<"t", "i", "f", "f">>}

Filenames ==
    {<<>>,
     <<"A", ".", "b", ".", "G", "I", "F">>,
     <<"a">>,
     <<"a", ".", "e", "x", "e">>,
     <<"a", ".", "p", "n", "g", ".", "e", "x", "e">>,
     <<"a", ".">>}

\* what a request carries under the key 'image': nothing, or a file name
NoFile == [present |-> FALSE]

\* what a request carries as its access token: a token verify_jwt_in_request
\* accepts, none, one that does not decode, or one past its expiry
Tokens == {"valid", "missing", "invalid", "expired"}
FileInputs == {NoFile} \cup {[present |-> TRUE, filename |-> f] : f \in Filenames}

\* the uploads the request threads send
GrayL0 == [kind |-> "ok", mode |-> "L", w |-> 1, h |-> 1, px |-> << <<0>> >>]
RedRGB == [kind |-> "ok", mode |-> "RGB", w |-> 1, h |-> 1, px |-> << <<255, 0, 0>> >>]
GrayAlpha == [kind |-> "ok", mode |-> "LA", w |-> 1, h |-> 1, px |-> << <<10, 255>> >>]
ReqImages == {GrayL0, RedRGB, GrayAlpha, BadImage}

Unread == [unread |-> TRUE]

FreshRequest ==
    [token |-> "missing",   \* the access token the request carries
     file |-> NoFile,       \* what the request carries under 'image'
     filename |-> <<>>,     \* file.filename
     image |-> None,        \* file_bytes
     upload |-> NoResult,   \* outcome of cloudinary.uploader.upload
     events |-> <<>>,       \* what the request has done so far, in order
     seen |-> Unread,       \* the value of MODEL read at line 142
     m |-> Unread,          \* the value of MODEL read at line 146
     tensor |-> NoResult,   \* outcome of preprocess_image_from_bytes
     preAbsent |-> FALSE,   \* MODEL was None when preprocess_image_from_bytes ran
     pred |-> NoResult,     \* outcome of image_prediction
     cause |-> "none",      \* where image_prediction failed
     resp |-> NoResult]     \* the response returned

Response(status, error) == [status |-> status, error |-> error]

\* lines 150-155: the inner except clause
ProcessingFailed(e) ==
    [status |-> 500, error |-> "Processing failed",
     message |-> <<"Failed to process image: ">> \o e.msg]

\* variant: no outer except clause, the exception leaves the handler
OuterExceptPropagates(e) == e

\* lines 157-162: the outer except clause
InternalServerError(e) ==
    [status |-> 500, error |-> "Internal server error", message |-> e.msg]

\* variant: an unmapped class falls back to the PD entry
PredictionDetailsFallsBackToPD(prediction_class) ==
    CASE prediction_class = "AD" ->
            [name |-> "AD", full_name |-> "Alzheimer's Disease",
             description |-> "The scan shows patterns consistent with Alzheimer's disease, characterized by brain tissue changes.",
             recommendation |-> "Consult with a neurologist for comprehensive evaluation and potential treatment options. Early intervention may help manage symptoms."]
      [] prediction_class = "CONTROL" ->
            [name |-> "CONTROL", full_name |-> "Normal Brain Scan",
             description |-> "The brain scan appears normal with no signs of neurological disorders.",
             recommendation |-> "Continue regular health monitoring. Maintain a healthy lifestyle with proper diet, exercise, and mental stimulation."]
      [] OTHER ->
            [name |-> "PD", full_name |-> "Parkinson's Disease",
             description |-> "The scan indicates patterns associated with Parkinson's disease, affecting movement and motor functions.",
             recommendation |-> "Schedule an appointment with a movement disorder specialist. Physical therapy and medication may help manage symptoms."]

\* lines 93-114: prediction_details.get(prediction_class, prediction_details['CONTROL'])
prediction_details(prediction_class) ==
    CASE prediction_class = "AD" ->
            [name |-> "AD", full_name |-> "Alzheimer's Disease",
             description |-> "The scan shows patterns consistent with Alzheimer's disease, characterized by brain tissue changes.",
             recommendation |-> "Consult with a neurologist for comprehensive evaluation and potential treatment options. Early intervention may help manage symptoms."]
      [] prediction_class = "PD" ->
            [name |-> "PD", full_name |-> "Parkinson's Disease",
             description |-> "The scan indicates patterns associated with Parkinson's disease, affecting movement and motor functions.",
             recommendation |-> "Schedule an appointment with a movement disorder specialist. Physical therapy and medication may help manage symptoms."]
      [] OTHER ->
            [name |-> "CONTROL", full_name |-> "Normal Brain Scan",
             description |-> "The brain scan appears normal with no signs of neurological disorders.",
             recommendation |-> "Continue regular health monitoring. Maintain a healthy lifestyle with proper diet, exercise, and mental stimulation."]

\* round(float(p) * 100, 2), in hundredths of a percent
Percent(p) == p * 100

\* lines 88-135: the diagnostic payload built from image_prediction's result,
\* or the exception that indexing the probabilities raises
MapToPayload(raw_prediction) ==
    LET raw_probs == raw_prediction.raw_probabilities[1]
        current_prediction == prediction_details(raw_prediction.prediction)
    IN  IF Len(raw_probs) < 3
        THEN Raise("IndexError", <<"list index out of range">>)
        ELSE Return([name |-> current_prediction.name,
                     full_name |-> current_prediction.full_name,
                     description |-> current_prediction.description,
                     recommendation |-> current_prediction.recommendation,
                     confidence |-> [control |-> Percent(raw_probs[1]),
                                     alzheimer |-> Percent(raw_probs[2]),
                                     parkinson |-> Percent(raw_probs[3])],
                     primary_confidence |-> Percent(raw_prediction.confidence)])

\* lines 88-148: the response built from image_prediction's result; userOut is
\* the outcome of UserOperations.get_user_by_id
BuildResponse(raw_prediction, userOut) ==
    LET payload == MapToPayload(raw_prediction)
    IN  IF userOut.kind = "raise" THEN ProcessingFailed(userOut)
        ELSE IF payload.kind = "raise" THEN ProcessingFailed(payload)
        ELSE [status |-> 200, error |-> "", prediction |-> payload.val]

UserOutcomes ==
    {Return("user"), Return("no user"),
     Raise("OperationalError", <<"database unavailable">>)}

Log(t, e) == [rq[t] EXCEPT !.events = Append(@, e)]

loaderVars == <<MODEL, artifact, lpc, building, lexc, lres, loads, stdout,
                imported, clean, since, first>>

\* a request arrives; the module has been imported, so the load of line 51
\* has finished
ReqStart(t) ==
    /\ pc[t] = "idle"
    /\ imported = "done"
    /\ pc' = [pc EXCEPT ![t] = "jwt_required"]
    /\ \E k \in Tokens, f \in FileInputs :
         rq' = [rq EXCEPT ![t] = [FreshRequest EXCEPT !.token = k, !.file = f]]
    /\ UNCHANGED <<loaderVars, imgVars, predVars, healthVars, userVars>>

\* server.py lines 47-66: the answers of the JWT error handlers
expired_token_callback == Response(401, "Token expired")
invalid_token_callback == Response(401, "Invalid token")
missing_token_callback == Response(401, "Authorization required")

\* line 30, @jwt_required(): a request without a valid access token is
\* answered by the error handler of its failure and predict() does not run
ReqJwtRequired(t) ==
    /\ pc[t] = "jwt_required"
    /\ IF rq[t].token = "valid"
       THEN /\ pc' = [pc EXCEPT ![t] = "is_model_loaded"]
            /\ UNCHANGED rq
       ELSE /\ rq' = [rq EXCEPT ![t].resp =
                         CASE rq[t].token = "missing" -> missing_token_callback
                           [] rq[t].token = "invalid" -> invalid_token_callback
                           [] rq[t].token = "expired" -> expired_token_callback]
            /\ pc' = [pc EXCEPT ![t] = "done"]
    /\ UNCHANGED <<loaderVars, imgVars, predVars, healthVars, userVars>>

\* a slip of ReqIsModelLoaded: the handler does not look at the model
ReqIsModelLoadedSkipsCheck(t) ==
    /\ pc[t] = "is_model_loaded"
    /\ rq' = [rq EXCEPT ![t] = Log(t, "is_model_loaded")]
    /\ pc' = [pc EXCEPT ![t] = "files"]
    /\ UNCHANGED <<loaderVars, imgVars, predVars, healthVars, userVars>>

\* lines 36-41
ReqIsModelLoaded(t) ==
    /\ pc[t] = "is_model_loaded"
    /\ IF ~is_model_loaded(MODEL)
       THEN /\ rq' = [rq EXCEPT ![t] =
                         [Log(t, "is_model_loaded") EXCEPT
                             !.resp = Response(503, "Model not available")]]
            /\ pc' = [pc EXCEPT ![t] = "done"]
       ELSE /\ rq' = [rq EXCEPT ![t] = Log(t, "is_model_loaded")]
            /\ pc' = [pc EXCEPT ![t] = "files"]
    /\ UNCHANGED <<loaderVars, imgVars, predVars, healthVars, userVars>>

\* request.files when the client went away before the body was read
ClientDisconnected ==
    Raise("ClientDisconnected", <<"400 Bad Request: The browser (or proxy) sent a request that this server could not understand.">>)

\* lines 43-64: the body parses and carries f, or parsing it raises and the
\* request leaves through lines 157-162
ReqFiles(t) ==
    /\ pc[t] = "files"
    /\ \/ /\ rq' = [rq EXCEPT ![t].resp = InternalServerError(ClientDisconnected)]
          /\ pc' = [pc EXCEPT ![t] = "done"]
       \/ LET f == rq[t].file IN
         IF ~f.present
         THEN /\ rq' = [rq EXCEPT ![t].resp = Response(400, "No file uploaded")]
              /\ pc' = [pc EXCEPT ![t] = "done"]
         ELSE IF f.filename = <<>>
         THEN /\ rq' = [rq EXCEPT ![t].filename = f.filename,
                                  ![t].resp = Response(400, "No file selected")]
              /\ pc' = [pc EXCEPT ![t] = "done"]
         ELSE IF FileExtension(f.filename) \notin SUPPORTED_FORMATS
         THEN /\ rq' = [rq EXCEPT ![t].filename = f.filename,
                                  ![t].resp = Response(400, "Invalid file type")]
              /\ pc' = [pc EXCEPT ![t] = "done"]
         ELSE /\ rq' = [rq EXCEPT ![t].filename = f.filename]
              /\ pc' = [pc EXCEPT ![t] = "upload"]
    /\ UNCHANGED <<loaderVars, imgVars, predVars, healthVars, userVars>>

\* the outcomes of cloudinary.uploader.upload
UploadOutcomes ==
    {Return("secure_url"), Raise("cloudinary.Error", <<"upload failed">>)}

\* a slip of ReqUpload: a failed upload is logged and the request goes on
ReqUploadIgnoresFailure(t) ==
    /\ pc[t] = "upload"
    /\ \E im \in ReqImages, up \in UploadOutcomes :
         rq' = [rq EXCEPT ![t] =
                   [Log(t, "read") EXCEPT !.image = im, !.upload = up,
                                          !.events = Append(@, "upload")]]
    /\ pc' = [pc EXCEPT ![t] = "preprocess"]
    /\ UNCHANGED <<loaderVars, imgVars, predVars, healthVars, userVars>>

\* lines 68-82: file.read() and cloudinary.uploader.upload
ReqUpload(t) ==
    /\ pc[t] = "upload"
    /\ \E im \in ReqImages, up \in UploadOutcomes :
         LET r == [Log(t, "read") EXCEPT !.image = im, !.upload = up,
                                         !.events = Append(@, "upload")]
         IN  IF up.kind = "return"
             THEN /\ rq' = [rq EXCEPT ![t] = r]
                  /\ pc' = [pc EXCEPT ![t] = "preprocess"]
             ELSE /\ rq' = [rq EXCEPT ![t] =
                               [r EXCEPT !.resp = ProcessingFailed(up)]]
                  /\ pc' = [pc EXCEPT ![t] = "done"]
    /\ UNCHANGED <<loaderVars, imgVars, predVars, healthVars, userVars>>

\* a slip of ReqPreprocess: a failed preprocessing drops the model handle
ReqPreprocessDropsModel(t) ==
    /\ pc[t] = "preprocess"
    /\ LET out == preprocess_image_from_bytes(rq[t].image)
           r == [Log(t, "preprocess") EXCEPT !.tensor = out,
                                             !.preAbsent = (MODEL = None)]
       IN  IF out.kind = "raise"
           THEN /\ rq' = [rq EXCEPT ![t] = [r EXCEPT !.resp = ProcessingFailed(out)]]
                /\ pc' = [pc EXCEPT ![t] = "done"]
                /\ MODEL' = None
           ELSE /\ rq' = [rq EXCEPT ![t] = r]
                /\ pc' = [pc EXCEPT ![t] = "absence_check"]
                /\ UNCHANGED MODEL
    /\ UNCHANGED <<artifact, lpc, building, lexc, lres, loads, stdout, imported,
                   clean, since, first, imgVars, predVars, healthVars, userVars>>

\* line 85
ReqPreprocess(t) ==
    /\ pc[t] = "preprocess"
    /\ LET out == preprocess_image_from_bytes(rq[t].image)
           r == [Log(t, "preprocess") EXCEPT !.tensor = out,
                                             !.preAbsent = (MODEL = None)]
       IN  IF out.kind = "raise"
           THEN /\ rq' = [rq EXCEPT ![t] = [r EXCEPT !.resp = ProcessingFailed(out)]]
                /\ pc' = [pc EXCEPT ![t] = "done"]
           ELSE /\ rq' = [rq EXCEPT ![t] = r]
                /\ pc' = [pc EXCEPT ![t] = "absence_check"]
    /\ UNCHANGED <<loaderVars, imgVars, predVars, healthVars, userVars>>

\* a failure inside image_prediction leaves it through lines 165-167 and
\* the request through lines 150-155
PredictionFails(t, r, e, cause) ==
    LET out == ImagePredictionExcept(e) IN
    /\ rq' = [rq EXCEPT ![t] = [r EXCEPT !.pred = out, !.cause = cause,
                                         !.resp = ProcessingFailed(out)]]
    /\ pc' = [pc EXCEPT ![t] = "done"]

\* lines 142-143: if MODEL is None
ReqAbsenceCheck(t) ==
    /\ pc[t] = "absence_check"
    /\ LET r == [Log(t, "absence_check") EXCEPT !.seen = MODEL] IN
       IF MODEL = None
       THEN PredictionFails(t, r, ModelNotLoaded, "absence_check")
       ELSE /\ rq' = [rq EXCEPT ![t] = r]
            /\ pc' = [pc EXCEPT ![t] = "load_global"]
    /\ UNCHANGED <<loaderVars, imgVars, predVars, healthVars, userVars>>

\* line 146: MODEL is read again and its predict method is called
ReqForwardStart(t) ==
    /\ pc[t] = "load_global"
    /\ LET r == [rq[t] EXCEPT !.m = MODEL] IN
       IF MODEL = None
       THEN PredictionFails(t, r, NoneHasNoPredict, "forward_on_none")
       ELSE /\ rq' = [rq EXCEPT ![t] = [r EXCEPT !.events = Append(@, "forward")]]
            /\ pc' = [pc EXCEPT ![t] = "forward"]
    /\ UNCHANGED <<loaderVars, imgVars, predVars, healthVars, userVars>>

\* a slip of ReqForwardEnd: predict works on whatever the global holds when
\* the forward pass ends
ReqForwardEndReadsGlobal(t) ==
    /\ pc[t] = "forward"
    /\ \E crash \in BOOLEAN :
         IF MODEL = None
         THEN PredictionFails(t, rq[t], NoneHasNoPredict, "forward_on_none")
         ELSE LET out == IF crash
                         THEN Raise("ResourceExhaustedError", <<"OOM when allocating tensor">>)
                         ELSE Forward(MODEL, rq[t].tensor.val)
              IN  IF out.kind = "raise"
                  THEN PredictionFails(t, rq[t], out, "runtime")
                  ELSE /\ rq' = [rq EXCEPT ![t].pred = Return(PredictionResult(out.val))]
                       /\ pc' = [pc EXCEPT ![t] = "map"]
    /\ UNCHANGED <<loaderVars, imgVars, predVars, healthVars, userVars>>

\* lines 146-164: the forward pass ends, by a result or by a runtime failure
\* (a failure of the runtime, or the one the model raises for this input)
ReqForwardEnd(t) ==
    /\ pc[t] = "forward"
    /\ \E crash \in BOOLEAN :
         LET out == IF crash
                    THEN Raise("ResourceExhaustedError", <<"OOM when allocating tensor">>)
                    ELSE Forward(rq[t].m, rq[t].tensor.val)
         IN  IF out.kind = "raise"
             THEN PredictionFails(t, rq[t], out, "runtime")
             ELSE /\ rq' = [rq EXCEPT ![t].pred = Return(PredictionResult(out.val))]
                  /\ pc' = [pc EXCEPT ![t] = "map"]
    /\ UNCHANGED <<loaderVars, imgVars, predVars, healthVars, userVars>>

\* lines 88-148
ReqMap(t) ==
    /\ pc[t] = "map"
    /\ \E u \in UserOutcomes :
         rq' = [rq EXCEPT ![t] =
                   [Log(t, "map") EXCEPT !.resp = BuildResponse(rq[t].pred.val, u)]]
    /\ pc' = [pc EXCEPT ![t] = "done"]
    /\ UNCHANGED <<loaderVars, imgVars, predVars, healthVars, userVars>>

\* the response has been sent
ReqFinish(t) ==
    /\ pc[t] = "done"
    /\ pc' = [pc EXCEPT ![t] = "idle"]
    /\ rq' = [rq EXCEPT ![t] = FreshRequest]
    /\ UNCHANGED <<loaderVars, imgVars, predVars, healthVars, userVars>>

(***************************************************************************)
(* prediction_health (GET /health of the prediction blueprint)             *)
(***************************************************************************)
\* the names bound at module level in routes/prediction_routes.py
PredictionRoutesGlobals ==
    {"Blueprint", "request", "jsonify", "jwt_required", "get_jwt_identity",
     "os", "logging", "datetime", "secure_filename", "cloudinary", "json",
     "configure_cloudinary", "preprocess_image_from_bytes", "image_prediction",
     "is_model_loaded", "get_model_info", "SUPPORTED_FORMATS", "MODEL",
     "prediction_bp", "logger", "predict", "generate_report",
     "prediction_health", "test_route"}

\* evaluating a global name: its value, or NameError
Lookup(name) ==
    IF name \in PredictionRoutesGlobals
    THEN Return(name)
    ELSE Raise("NameError", <<"name '", name, "' is not defined">>)

\* lines 391-402: the try block
HealthTry(model) ==
    LET model_loaded == is_model_loaded(model)
        folder == Lookup("UPLOAD_FOLDER")
    IN  IF folder.kind = "raise" THEN folder
        ELSE Return([code |-> IF model_loaded THEN 200 ELSE 503,
                     status |-> IF model_loaded THEN "healthy" ELSE "unhealthy",
                     service |-> "prediction_service",
                     model_loaded |-> model_loaded])

\* lines 404-411: the except clause
HealthExcept(e) ==
    Return([code |-> 500, status |-> "unhealthy",
            service |-> "prediction_service", error |-> e.msg])

prediction_health(model) ==
    LET r == HealthTry(model) IN
    IF r.kind = "raise" THEN HealthExcept(r) ELSE r

\* GET /health is served; loaded records what the handle held at that time
Health ==
    /\ imported = "done"
    /\ hres' = [loaded |-> MODEL # None, resp |-> prediction_health(MODEL).val]
    /\ UNCHANGED <<srvVars, imgVars, predVars, userVars>>

(***************************************************************************)
(* models/user.py and routes/user_routes.py: register, login and the       *)
(* operations on the users table                                           *)
(***************************************************************************)
\* Two threads serve POST /register and one serves POST /login (the server
\* runs with threaded=True); delete_user, update_user, change_password,
\* drop_tables and create_tables are called while they run.
RegThreads == {"r1", "r2"}
LoginThreads == {"l1"}
\* the callers of delete_user, update_user and change_password
OpThreads == {"o1", "o2"}
FirstOp == "o1"
UserThreads == RegThreads \cup LoginThreads \cup OpThreads

\* Text is a sequence of ASCII characters.
Letters ==
    {UpperCase[k] : k \in 1..Len(UpperCase)} \cup
    {LowerCase[k] : k \in 1..Len(LowerCase)}
Digits == {"0", "1", "2", "3", "4", "5", "6", "7", "8", "9"}
\* the ASCII characters str.strip() removes and the \s of a str pattern
\* matches: space, \t, \n, \x0b, \x0c, \r and \x1c to \x1f.  The characters
\* the string syntax has no escape for are written by their Python escape.
VT == "\\x0b"
FS == "\\x1c"
GS == "\\x1d"
RS == "\\x1e"
US == "\\x1f"
Whitespace == {" ", "\t", "\n", VT, "\f", "\r", FS, GS, RS, US}

\* str.strip()
Strip(s) ==
    LET keep == {k \in 1..Len(s) : s[k] \notin Whitespace} IN
    IF keep = {} THEN <<>>
    ELSE SubSeq(s, CHOOSE k \in keep : \A j \in keep : k <= j,
                   CHOOSE k \in keep : \A j \in keep : k >= j)

\* lines 53 and 173 of user_routes.py: .strip().lower()
StripLower(raw) == LowerStr(Strip(raw))

\* JSON values as request.get_json() returns them: str, int, None, bool,
\* dict (a record of JSON values) and list
Str(s) == [t |-> "str", s |-> s]
Num(n) == [t |-> "num", n |-> n]
Null == [t |-> "null"]
Bool(b) == [t |-> "bool", b |-> b]
Dict(d) == [t |-> "dict", d |-> d]
List(items) == [t |-> "list", items |-> items]
\* a body get_json() cannot parse
Unparsable == [t |-> "unparsable"]

\* bool(v)
Truthy(v) ==
    CASE v.t = "str" -> v.s # <<>>
      [] v.t = "num" -> v.n # 0
      [] v.t = "null" -> FALSE
      [] v.t = "bool" -> v.b
      [] v.t = "dict" -> DOMAIN v.d # {}
      [] v.t = "list" -> v.items # <<>>

\* int(v) of a number or a bool (True is 1 and False is 0 in Python)
AsInt(v) == IF v.t = "num" THEN v.n ELSE IF v.b THEN 1 ELSE 0

\* a == b of two JSON values: numbers and bools compare by value, lists
\* element by element, dicts key by key
RECURSIVE PyEqual(_, _)
PyEqual(a, b) ==
    IF a.t \in {"num", "bool"} /\ b.t \in {"num", "bool"}
    THEN AsInt(a) = AsInt(b)
    ELSE IF a.t # b.t THEN FALSE
    ELSE CASE a.t = "str" -> a.s = b.s
           [] a.t = "null" -> TRUE
           [] a.t = "list" ->
                 /\ Len(a.items) = Len(b.items)
                 /\ \A k \in 1..Len(a.items) : PyEqual(a.items[k], b.items[k])
           [] a.t = "dict" ->
                 /\ DOMAIN a.d = DOMAIN b.d
                 /\ \A k \in DOMAIN a.d : PyEqual(a.d[k], b.d[k])

\* a != b
PyNotEqual(a, b) == ~PyEqual(a, b)

\* len(v): defined on str, list and dict
PyLen(v) ==
    CASE v.t = "str" -> Return(Len(v.s))
      [] v.t = "list" -> Return(Len(v.items))
      [] v.t = "dict" -> Return(Cardinality(DOMAIN v.d))
      [] OTHER -> Raise("TypeError", <<"object has no len()">>)

\* data.get(key, default)
Get(data, key, default) ==
    IF key \in DOMAIN data.d THEN data.d[key] ELSE default

\* lines 13-17: EMAIL_REGEX.match(email) is not None, for
\* ^[a-zA-Z0-9._%+-]+@[a-zA-Z0-9.-]+\.[a-zA-Z]{2,}$
LocalChars == Letters \cup Digits \cup {".", "_", "%", "+", "-"}
DomainChars == Letters \cup Digits \cup {".", "-"}

\* the pattern matches the whole of text
EmailFullMatch(email) ==
    \E a \in 2..Len(email) :
        /\ email[a] = "@"
        /\ \A k \in 1..(a - 1) : email[k] \in LocalChars
        /\ \E d \in (a + 2)..(Len(email) - 2) :
              /\ email[d] = "."
              /\ \A k \in (a + 1)..(d - 1) : email[k] \in DomainChars
              /\ \A k \in (d + 1)..Len(email) : email[k] \in Letters

\* $ matches at the end of the text and before a newline that ends it
validate_email(email) ==
    \/ EmailFullMatch(email)
    \/ /\ email # <<>>
       /\ email[Len(email)] = "\n"
       /\ EmailFullMatch(SubSeq(email, 1, Len(email) - 1))

\* lines 19-27: validate_password(password) of a JSON value.  len() raises
\* on a number or a bool, re.search raises on what is not a str.
validate_password(password) ==
    IF PyLen(password).kind = "raise" THEN PyLen(password)
    ELSE IF PyLen(password).val < 8
    THEN Return(<<FALSE, "Password must be at least 8 characters long">>)
    ELSE IF password.t # "str"
    THEN Raise("TypeError", <<"expected string or bytes-like object">>)
    ELSE IF ~\E k \in 1..Len(password.s) : password.s[k] \in Letters
    THEN Return(<<FALSE, "Password must contain at least one letter">>)
    ELSE IF ~\E k \in 1..Len(password.s) : password.s[k] \in Digits
    THEN Return(<<FALSE, "Password must contain at least one number">>)
    ELSE Return(<<TRUE, "Password is valid">>)

\* lines 29-35: validate_name(name) of a str, for ^[a-zA-Z\s'-]+$
validate_name(name) ==
    IF name = <<>> \/ Len(Strip(name)) < 2
    THEN <<FALSE, "Name must be at least 2 characters long">>
    ELSE IF ~\A k \in 1..Len(name) : name[k] \in Letters \cup Whitespace \cup {"'", "-"}
    THEN <<FALSE, "Name can only contain letters, spaces, hyphens, and apostrophes">>
    ELSE <<TRUE, "Name is valid">>

\* line 112
valid_user_types ==
    {<<"h", "e", "a", "l", "t", "h", "c", "a", "r", "e">>, <<"r", "e", "s", "e", "a", "r", "c", "h", "e", "r">>, <<"s", "t", "u", "d", "e", "n", "t">>, <<"o", "t", "h", "e", "r">>}

\* an answer of a user route with a 'message' that depends on the input
Answer(status, error, message) ==
    [status |-> status, error |-> error, message |-> message]

\* the fields register passes to create_user
Fields(first_name, last_name, email, password, user_type) ==
    [kind |-> "fields", first_name |-> first_name, last_name |-> last_name,
     email |-> email, password |-> password, user_type |-> user_type]

\* register lines 40-118: the body is read and checked.  The outcome is the
\* answer of a failed check, the exception that leaves for lines 152-157, or
\* the fields that go to create_user.
RegisterChecks(data) ==
    IF data.t = "unparsable"
    THEN Raise("BadRequest", <<"400 Bad Request: Failed to decode JSON object">>)
    ELSE IF ~Truthy(data)
    THEN Return(Response(400, "No data provided"))
    ELSE IF data.t # "dict"
    THEN Raise("AttributeError", <<"object has no attribute 'get'">>)
    ELSE
    LET fn == Get(data, "firstName", Str(<<>>))
        ln == Get(data, "lastName", Str(<<>>))
        em == Get(data, "email", Str(<<>>))
        password == Get(data, "password", Str(<<>>))
        confirm_password == Get(data, "confirmPassword", Str(<<>>))
        ut == Get(data, "userType", Str(<<"h", "e", "a", "l", "t", "h", "c", "a", "r", "e">>))
        agree_to_terms == Get(data, "agreeToTerms", Bool(FALSE))
    IN
    IF fn.t # "str" \/ ln.t # "str" \/ em.t # "str" \/ ut.t # "str"
    THEN Raise("AttributeError", <<"object has no attribute 'strip'">>)
    ELSE
    LET first_name == Strip(fn.s)
        last_name == Strip(ln.s)
        email == StripLower(em.s)
        user_type == Strip(ut.s)
    IN
    IF first_name = <<>> \/ last_name = <<>> \/ email = <<>> \/ ~Truthy(password)
    THEN Return(Response(400, "Missing required fields"))
    ELSE IF ~Truthy(agree_to_terms)
    THEN Return(Response(400, "Terms not accepted"))
    ELSE IF PyNotEqual(password, confirm_password)
    THEN Return(Response(400, "Password mismatch"))
    ELSE IF ~validate_name(first_name)[1]
    THEN Return(Answer(400, "Invalid first name", validate_name(first_name)[2]))
    ELSE IF ~validate_name(last_name)[1]
    THEN Return(Answer(400, "Invalid last name", validate_name(last_name)[2]))
    ELSE IF ~validate_email(email)
    THEN Return(Response(400, "Invalid email"))
    ELSE IF validate_password(password).kind = "raise"
    THEN validate_password(password)
    ELSE IF ~validate_password(password).val[1]
    THEN Return(Answer(400, "Invalid password", validate_password(password).val[2]))
    ELSE IF user_type \notin valid_user_types
    THEN Return(Response(400, "Invalid user type"))
    ELSE Fields(first_name, last_name, email, password.s, user_type)

\* the request bodies the register threads send
EmailA == <<"a", "@", "x", ".", "i", "o">>
EmailARaw == <<" ", "A", "@", "X", ".", "i", "o", " ">>
EmailAFeed == <<"\f", "a", "@", "x", ".", "i", "o", VT>>
EmailB == <<"b", "@", "x", ".", "i", "o">>
RawEmails == {EmailA, EmailARaw, EmailAFeed, EmailB}

Passw0rd1 == <<"p", "a", "s", "s", "w", "0", "r", "d", "1">>
Passw0rd2 == <<"p", "a", "s", "s", "w", "0", "r", "d", "2">>
Passwords == {Passw0rd1, Passw0rd2}

RegisterBody(firstName, lastName, email, password, confirm, terms) ==
    Dict([firstName |-> firstName, lastName |-> lastName, email |-> email,
          password |-> password, confirmPassword |-> confirm,
          agreeToTerms |-> terms])

WellFormedBody(email, password) ==
    RegisterBody(Str(<<" ", "A", "n", "n", " ">>),
                 Str(<<"O", "'", "N", "e", "i", "l", "-", "L", "i">>),
                 Str(email), Str(password), Str(password), Bool(TRUE))

WithUserType(body, user_type) ==
    Dict([k \in DOMAIN body.d \cup {"userType"} |->
              IF k = "userType" THEN user_type ELSE body.d[k]])

WellFormedBodies ==
    {WellFormedBody(e, p) : e \in RawEmails, p \in Passwords} \cup
    {RegisterBody(Str(<<"A", "\f", "b">>), Str(<<"L", "e", "e", US>>),
                  Str(EmailA), Str(Passw0rd1), Str(Passw0rd1), Num(1))}

MalformedBodies ==
    {Unparsable, Null, Dict(<<>>), List(<<Num(1)>>),
     Dict([email |-> Str(EmailA)]),
     RegisterBody(Str(<<"A", "n", "n">>), Str(<<"L", "e", "e">>), Num(123), Str(Passw0rd1), Str(Passw0rd1), Bool(TRUE)),
     RegisterBody(Null, Str(<<"L", "e", "e">>), Str(EmailA), Str(Passw0rd1), Str(Passw0rd1), Bool(TRUE)),
     RegisterBody(Str(<<"A", "n", "n">>), Str(<<"L", "e", "e">>), Str(EmailA), Str(Passw0rd1), Str(Passw0rd1), Bool(FALSE)),
     RegisterBody(Str(<<"A", "n", "n">>), Str(<<"L", "e", "e">>), Str(EmailA), Str(Passw0rd1), Str(Passw0rd2), Bool(TRUE)),
     RegisterBody(Str(<<"A">>), Str(<<"L", "e", "e">>), Str(EmailA), Str(Passw0rd1), Str(Passw0rd1), Bool(TRUE)),
     RegisterBody(Str(<<"A", "n", "n">>), Str(<<"L", "e", "3">>), Str(EmailA), Str(Passw0rd1), Str(Passw0rd1), Bool(TRUE)),
     RegisterBody(Str(<<"A", "n", "n">>), Str(<<"L", "e", "e">>), Str(<<"a", "@", "x">>), Str(Passw0rd1), Str(Passw0rd1), Bool(TRUE)),
     RegisterBody(Str(<<"A", "n", "n">>), Str(<<"L", "e", "e">>), Str(EmailA), Str(<<"p", "a", "s", "s", "w", "0", "r">>), Str(<<"p", "a", "s", "s", "w", "0", "r">>), Bool(TRUE)),
     RegisterBody(Str(<<"A", "n", "n">>), Str(<<"L", "e", "e">>), Str(EmailA), Str(<<"p", "a", "s", "s", "w", "o", "r", "d">>), Str(<<"p", "a", "s", "s", "w", "o", "r", "d">>), Bool(TRUE)),
     RegisterBody(Str(<<"A", "n", "n">>), Str(<<"L", "e", "e">>), Str(EmailA), Num(12345678), Num(12345678), Bool(TRUE)),
     RegisterBody(Str(<<"A", "n", "n">>), Str(<<"L", "e", "e">>), Str(EmailA), List(<<Num(1)>>), List(<<Bool(TRUE)>>), Bool(TRUE)),
     RegisterBody(Str(<<"A", "n", "n">>), Str(<<"L", "e", "e">>), Str(EmailA), Dict([a |-> Num(1)]), Dict([a |-> Bool(TRUE)]), Bool(TRUE)),
     RegisterBody(Str(<<"A", "n", "n">>), Str(<<"L", "e", "e">>), Str(EmailA), List(<<Num(1)>>), List(<<Num(2)>>), Bool(TRUE)),
     RegisterBody(Str(<<"A", "n", "n">>), Str(<<"L", "e", "e">>), Str(EmailA),
                  List(<<Num(1), Num(2), Num(3), Num(4), Num(5), Num(6), Num(7), Num(8)>>),
                  List(<<Num(1), Num(2), Num(3), Num(4), Num(5), Num(6), Num(7), Num(8)>>), Bool(TRUE)),
     WithUserType(WellFormedBody(EmailA, Passw0rd1), Str(<<"a", "d", "m", "i", "n">>)),
     WithUserType(WellFormedBody(EmailA, Passw0rd1), Str(<<" ", "s", "t", "u", "d", "e", "n", "t", " ">>))}

RegisterBodies == WellFormedBodies \cup MalformedBodies

\* generate_password_hash / check_password_hash
generate_password_hash(password) == <<"pbkdf2", password>>
check_password_hash(pwhash, password) == pwhash = <<"pbkdf2", password>>

\* the rows with this email (User.email == email); the column is unique
RowsByEmail(rows, email) == {u \in rows : u.email = email}

\* session.query(User).filter(User.email == email).first()
FirstByEmail(rows, email) ==
    IF RowsByEmail(rows, email) = {} THEN None
    ELSE CHOOSE u \in RowsByEmail(rows, email) :
             \A v \in RowsByEmail(rows, email) : u.id <= v.id

\* session.query(User).filter(User.id == id).first()
FirstById(rows, id) ==
    IF \E u \in rows : u.id = id THEN CHOOSE u \in rows : u.id = id ELSE None

\* User.__init__ and the column defaults, for the columns the routes of the
\* model read; last_login is the number of the login that set it, 0 for NULL
NewUser(id, email, password) ==
    [id |-> id, email |-> email,
     password_hash |-> generate_password_hash(password),
     is_active |-> TRUE, last_login |-> 0]

\* User.to_dict, lines 58-72
to_dict(user) ==
    [id |-> user.id, email |-> user.email, is_active |-> user.is_active,
     last_login |-> user.last_login]

IdleRequest == [pc |-> "idle"]

UserIdle ==
    /\ store = {}
    /\ tables = TRUE
    /\ nextId = 1
    /\ logins = 0
    /\ uq = [t \in UserThreads |-> IdleRequest]

\* get_session(), lines 129-137: a session, or the ValueError of
\* get_database_url when the deployment has no DATABASE_URL (line 96)
NoDatabaseUrl ==
    Raise("ValueError",
          <<"DATABASE_URL", "environment", "variable", "is", "not", "set", "and", "individual", "DB", "components", "are", "missing">>)
SessionOutcomes == {Return("session"), NoDatabaseUrl}

\* a round trip to the database: it answers, or the connection fails
OperationalError ==
    Raise("OperationalError", <<"server closed the connection unexpectedly">>)
\* the users table is not there (after drop_tables)
UndefinedTable ==
    Raise("ProgrammingError", <<"relation \"users\" does not exist">>)
\* session.refresh of a row that is not there any more
RowIsGone ==
    Raise("InvalidRequestError", <<"Could not refresh instance">>)
\* the UPDATE of a row that is not there any more: it matches no row
StaleDataError ==
    Raise("StaleDataError",
          <<"UPDATE statement on table 'users' expected to update 1 row(s); 0 were matched.">>)

RoundTrip(ok) ==
    IF ~ok THEN OperationalError
    ELSE IF ~tables THEN UndefinedTable
    ELSE Return(store)

\* lines 152-157 of register: except Exception
RegisterOuterExcept(e) == Response(500, "Internal server error")

\* what lines 40-118 of register make of each body of RegisterBodies
RegisterChecked == [data \in RegisterBodies |-> RegisterChecks(data)]

\* a request to POST /register that has not reached create_user
NewRegistration ==
    [pc |-> "validate", email |-> <<>>, password |-> <<>>, valid |-> FALSE,
     dup |-> FALSE, created |-> FALSE, id |-> 0, resp |-> NoResult]

\* POST /register arrives and lines 40-118 of register check its body, before
\* the table is read
RegValidate(t) ==
    /\ uq[t].pc = "idle"
    /\ nextId <= MaxRegistrations
    /\ \E data \in RegisterBodies :
         LET out == RegisterChecked[data] IN
         CASE out.kind = "fields" ->
                 uq' = [uq EXCEPT ![t] =
                           [NewRegistration EXCEPT !.pc = "query", !.valid = TRUE,
                                                   !.email = out.email,
                                                   !.password = out.password]]
           [] out.kind = "return" ->
                 uq' = [uq EXCEPT ![t] =
                           [NewRegistration EXCEPT !.pc = "done", !.resp = out.val]]
           [] out.kind = "raise" ->
                 uq' = [uq EXCEPT ![t] =
                           [NewRegistration EXCEPT !.pc = "done",
                                                   !.resp = RegisterOuterExcept(out)]]
    /\ UNCHANGED <<store, tables, nextId, logins, srvVars, imgVars, predVars,
                   healthVars>>

\* e.msg is the text of the exception as a sequence of words; needle in
\* str(e) for a needle of whole words
Contains(msg, needle) ==
    \E k \in 0..(Len(msg) - Len(needle)) :
        SubSeq(msg, k + 1, k + Len(needle)) = needle

\* lines 140-150 of register: except ValueError, "already exists" in str(e)
RegisterValueError(e) ==
    IF Contains(e.msg, <<"already", "exists">>)
    THEN Response(409, "Email already registered")
    ELSE Answer(400, "Registration failed", e.msg)

\* lines 140-157 of register: the answer to an exception of create_user
RegisterExcept(e) ==
    IF e.type = "ValueError" THEN RegisterValueError(e)
    ELSE RegisterOuterExcept(e)

\* line 178
UserAlreadyExists ==
    Raise("ValueError", <<"User", "with", "this", "email", "already", "exists">>)

\* create_user lines 173-178: get_session and the existence query
RegQuery(t) ==
    /\ uq[t].pc = "query"
    /\ \E s \in SessionOutcomes, ok \in BOOLEAN :
         LET rows == RoundTrip(ok) IN
         IF s.kind = "raise"
         THEN uq' = [uq EXCEPT ![t].pc = "done", ![t].resp = RegisterExcept(s)]
         ELSE IF rows.kind = "raise"
         THEN uq' = [uq EXCEPT ![t].pc = "done", ![t].resp = RegisterExcept(rows)]
         ELSE IF FirstByEmail(rows.val, uq[t].email) # None
         THEN uq' = [uq EXCEPT ![t].pc = "done", ![t].dup = TRUE,
                               ![t].resp = RegisterExcept(UserAlreadyExists)]
         ELSE uq' = [uq EXCEPT ![t].pc = "commit"]
    /\ UNCHANGED <<store, tables, nextId, logins, srvVars, imgVars, predVars,
                   healthVars>>

\* the unique index on email (User.email, unique=True) refuses a second row
IntegrityError ==
    Raise("IntegrityError", <<"duplicate key value violates unique constraint">>)

\* create_user lines 181-190 and 195-199: session.add and session.commit, the
\* INSERT.  A refused or failed INSERT is rolled back and re-raised, and
\* register answers it at lines 152-157; the id a refused row drew from the
\* sequence is not given back.
RegCommit(t) ==
    /\ uq[t].pc = "commit"
    /\ \E ok \in BOOLEAN :
         LET rows == RoundTrip(ok) IN
         IF rows.kind = "raise"
         THEN /\ uq' = [uq EXCEPT ![t].pc = "done", ![t].resp = RegisterExcept(rows)]
              /\ UNCHANGED <<store, nextId>>
         ELSE IF RowsByEmail(store, uq[t].email) # {}
         THEN /\ uq' = [uq EXCEPT ![t].pc = "done", ![t].dup = TRUE,
                                  ![t].resp = RegisterExcept(IntegrityError)]
              /\ nextId' = nextId + 1
              /\ UNCHANGED store
         ELSE /\ store' = store \cup {NewUser(nextId, uq[t].email, uq[t].password)}
              /\ nextId' = nextId + 1
              /\ uq' = [uq EXCEPT ![t].pc = "refresh", ![t].created = TRUE,
                                  ![t].id = nextId]
    /\ UNCHANGED <<tables, logins, srvVars, imgVars, predVars, healthVars>>

\* create_user lines 191-193 and register lines 124-138: session.refresh
\* reads the row again, by its id, and the 201 is built from what it read; a
\* refresh that fails is answered at lines 152-157, with the row stored
RegRefresh(t) ==
    /\ uq[t].pc = "refresh"
    /\ \E ok \in BOOLEAN :
         LET rows == RoundTrip(ok)
             user == IF rows.kind = "raise" THEN None
                     ELSE FirstById(rows.val, uq[t].id)
         IN  IF rows.kind = "raise"
             THEN uq' = [uq EXCEPT ![t].pc = "done", ![t].resp = RegisterExcept(rows)]
             ELSE IF user = None
             THEN uq' = [uq EXCEPT ![t].pc = "done", ![t].resp = RegisterExcept(RowIsGone)]
             ELSE uq' = [uq EXCEPT ![t].pc = "done",
                                   ![t].resp = [status |-> 201, error |-> "",
                                                user |-> to_dict(user),
                                                access_token |-> user.id]]
    /\ UNCHANGED <<store, tables, nextId, logins, srvVars, imgVars, predVars,
                   healthVars>>

\* the response has been sent, or the call has returned to its caller
UserFinish(t) ==
    /\ uq[t].pc = "done"
    /\ uq' = [uq EXCEPT ![t] = IdleRequest]
    /\ UNCHANGED <<store, tables, nextId, logins, srvVars, imgVars, predVars,
                   healthVars>>

\* POST /login arrives with credentials that pass the checks of lines 165-189
LoginStart(t) ==
    /\ uq[t].pc = "idle"
    /\ logins < MaxLogins
    /\ \E raw \in RawEmails, p \in Passwords :
         /\ validate_email(StripLower(raw))
         /\ uq' = [uq EXCEPT ![t] =
                      [pc |-> "authenticate", email |-> StripLower(raw),
                       password |-> p, found |-> None, updated |-> FALSE,
                       user |-> None, resp |-> NoResult]]
    /\ UNCHANGED <<store, tables, nextId, logins, srvVars, imgVars, predVars,
                   healthVars>>

\* lines 194-199 of login: except Exception around authenticate_user
AuthenticationFailed(e) == Response(500, "Authentication failed")

\* lines 201-231 of login: the answer for what authenticate_user
\* returned
LoginAnswer(user) ==
    IF user = None THEN Response(401, "Invalid credentials")
    ELSE IF ~user.is_active THEN Response(401, "Account deactivated")
    ELSE [status |-> 200, error |-> "", user |-> to_dict(user),
          access_token |-> user.id]

\* authenticate_user line 241: the condition under which the user is returned
Authenticates(user, password) ==
    /\ user # None
    /\ check_password_hash(user.password_hash, password)
    /\ user.is_active

\* authenticate_user lines 236-241 and 247: get_session, the query, and the
\* test of the row it read
LoginAuthenticate(t) ==
    /\ uq[t].pc = "authenticate"
    /\ \E s \in SessionOutcomes, ok \in BOOLEAN :
         LET rows == RoundTrip(ok)
             user == IF rows.kind = "raise" THEN None
                     ELSE FirstByEmail(rows.val, uq[t].email)
         IN  IF s.kind = "raise"
             THEN uq' = [uq EXCEPT ![t].pc = "done", ![t].resp = AuthenticationFailed(s)]
             ELSE IF rows.kind = "raise"
             THEN uq' = [uq EXCEPT ![t].pc = "done", ![t].resp = AuthenticationFailed(rows)]
             ELSE IF Authenticates(user, uq[t].password)
             THEN uq' = [uq EXCEPT ![t].pc = "commit", ![t].found = user]
             ELSE uq' = [uq EXCEPT ![t].pc = "done", ![t].found = user,
                                   ![t].resp = LoginAnswer(None)]
    /\ UNCHANGED <<store, tables, nextId, logins, srvVars, imgVars, predVars,
                   healthVars>>

\* authenticate_user lines 243-244: user.last_login = func.now() and
\* session.commit(), an UPDATE of that one column of the row with the id read
\* at line 239, whatever the row holds by now
LoginCommit(t) ==
    /\ uq[t].pc = "commit"
    /\ \E ok \in BOOLEAN :
         LET rows == RoundTrip(ok)
             user == IF rows.kind = "raise" THEN None
                     ELSE FirstById(rows.val, uq[t].found.id)
         IN  IF rows.kind = "raise"
             THEN /\ uq' = [uq EXCEPT ![t].pc = "done",
                                      ![t].resp = AuthenticationFailed(rows)]
                  /\ UNCHANGED <<store, logins>>
             ELSE IF user = None
             THEN /\ uq' = [uq EXCEPT ![t].pc = "done",
                                      ![t].resp = AuthenticationFailed(StaleDataError)]
                  /\ UNCHANGED <<store, logins>>
             ELSE /\ store' = (store \ {user}) \cup
                                {[user EXCEPT !.last_login = logins + 1]}
                  /\ logins' = logins + 1
                  /\ uq' = [uq EXCEPT ![t].pc = "refresh", ![t].updated = TRUE]
    /\ UNCHANGED <<tables, nextId, srvVars, imgVars, predVars, healthVars>>

\* authenticate_user lines 245-246: session.refresh(user) reads the row
\* again; login lines 194-231 answer
LoginRefresh(t) ==
    /\ uq[t].pc = "refresh"
    /\ \E ok \in BOOLEAN :
         LET rows == RoundTrip(ok)
             user == IF rows.kind = "raise" THEN None
                     ELSE FirstById(rows.val, uq[t].found.id)
         IN  IF rows.kind = "raise"
             THEN uq' = [uq EXCEPT ![t].pc = "done",
                                   ![t].resp = AuthenticationFailed(rows)]
             ELSE IF user = None
             THEN uq' = [uq EXCEPT ![t].pc = "done",
                                   ![t].resp = AuthenticationFailed(RowIsGone)]
             ELSE uq' = [uq EXCEPT ![t].pc = "done", ![t].user = user,
                                   ![t].resp = LoginAnswer(user)]
    /\ UNCHANGED <<store, tables, nextId, logins, srvVars, imgVars, predVars,
                   healthVars>>

\* delete_user, update_user and change_password (models/user.py lines
\* 255-318) each make two round trips to the database, the SELECT of the row
\* and the commit of what they changed on the object, and other requests run
\* between the two.  res is what the call returned or raised.

\* the user_id arguments: the ids in the table, and one that is not
UserIds == {u.id : u \in store} \cup {nextId}

UserNotFound == Raise("ValueError", <<"User not found">>)
InvalidOldPassword == Raise("ValueError", <<"Invalid old password">>)

\* get_session() and session.query(User).filter(User.id == user_id).first()
\* with the test of the row (lines 257-261, 282-286, 304-308): the row, or
\* what is raised
SelectById(s, ok, user_id) ==
    IF s.kind = "raise" THEN s
    ELSE IF RoundTrip(ok).kind = "raise" THEN RoundTrip(ok)
    ELSE IF FirstById(store, user_id) = None THEN UserNotFound
    ELSE Return(FirstById(store, user_id))

\* session.commit() after an attribute of the object changed: UPDATE users
\* SET that column WHERE id = the id read, then COMMIT.  It returns the row
\* the UPDATE matched, as it is now.
UpdateById(ok, id) ==
    IF RoundTrip(ok).kind = "raise" THEN RoundTrip(ok)
    ELSE IF FirstById(store, id) = None THEN StaleDataError
    ELSE Return(FirstById(store, id))

\* session.commit() when no attribute holds a new value: COMMIT alone, no
\* UPDATE is sent
CommitUnchanged(ok) == IF ok THEN Return(None) ELSE OperationalError

\* the call has ended: lines 273-277 (294-299, 313-318) roll back, close
\* the session and raise e again, or the return statement ran
OpEnds(t, op, res) ==
    uq' = [uq EXCEPT ![t] = [pc |-> "done", op |-> op, res |-> res]]

\* delete_user lines 304-308
DeleteUserSelect(t) ==
    /\ uq[t].pc = "idle"
    /\ \E user_id \in UserIds, s \in SessionOutcomes, ok \in BOOLEAN :
         LET user == SelectById(s, ok, user_id) IN
         IF user.kind = "raise"
         THEN OpEnds(t, "delete_user", user)
         ELSE uq' = [uq EXCEPT ![t] = [pc |-> "commit", op |-> "delete_user",
                                       user |-> user.val]]
    /\ UNCHANGED <<store, tables, nextId, logins, srvVars, imgVars, predVars,
                   healthVars>>

\* delete_user lines 310-312: user.is_active = False; session.commit();
\* return True.  The UPDATE is sent when the row read was active, and it
\* writes the row as it is by now.
DeleteUserCommit(t) ==
    /\ uq[t].pc = "commit"
    /\ uq[t].op = "delete_user"
    /\ \E ok \in BOOLEAN :
         LET out == IF uq[t].user.is_active
                    THEN UpdateById(ok, uq[t].user.id)
                    ELSE CommitUnchanged(ok)
         IN  IF out.kind = "raise"
             THEN /\ OpEnds(t, "delete_user", out)
                  /\ UNCHANGED store
             ELSE /\ OpEnds(t, "delete_user", Return(TRUE))
                  /\ store' = IF uq[t].user.is_active
                              THEN (store \ {out.val}) \cup
                                     {[out.val EXCEPT !.is_active = FALSE]}
                              ELSE store
    /\ UNCHANGED <<tables, nextId, logins, srvVars, imgVars, predVars,
                   healthVars>>

\* update_user lines 257-261, called with is_active among the keyword
\* arguments (an allowed field, line 264)
UpdateUserSelect(t) ==
    /\ uq[t].pc = "idle"
    /\ \E user_id \in UserIds, is_active \in BOOLEAN,
          s \in SessionOutcomes, ok \in BOOLEAN :
         LET user == SelectById(s, ok, user_id) IN
         IF user.kind = "raise"
         THEN OpEnds(t, "update_user", user)
         ELSE uq' = [uq EXCEPT ![t] = [pc |-> "commit", op |-> "update_user",
                                       is_active |-> is_active,
                                       user |-> user.val]]
    /\ UNCHANGED <<store, tables, nextId, logins, srvVars, imgVars, predVars,
                   healthVars>>

\* update_user lines 263-269: setattr(user, field, value); session.commit().
\* The UPDATE is sent when the value differs from the one read.
UpdateUserCommit(t) ==
    /\ uq[t].pc = "commit"
    /\ uq[t].op = "update_user"
    /\ \E ok \in BOOLEAN :
         LET changed == uq[t].user.is_active # uq[t].is_active
             out == IF changed
                    THEN UpdateById(ok, uq[t].user.id)
                    ELSE CommitUnchanged(ok)
         IN  IF out.kind = "raise"
             THEN /\ OpEnds(t, "update_user", out)
                  /\ UNCHANGED store
             ELSE /\ uq' = [uq EXCEPT ![t] = [pc |-> "refresh",
                                              op |-> "update_user",
                                              user |-> uq[t].user]]
                  /\ store' = IF changed
                              THEN (store \ {out.val}) \cup
                                     {[out.val EXCEPT !.is_active = uq[t].is_active]}
                              ELSE store
    /\ UNCHANGED <<tables, nextId, logins, srvVars, imgVars, predVars,
                   healthVars>>

\* update_user lines 270-271: session.refresh(user) reads the row again;
\* return user
UpdateUserRefresh(t) ==
    /\ uq[t].pc = "refresh"
    /\ uq[t].op = "update_user"
    /\ \E ok \in BOOLEAN :
         LET rows == RoundTrip(ok) IN
         IF rows.kind = "raise"
         THEN OpEnds(t, "update_user", rows)
         ELSE IF FirstById(rows.val, uq[t].user.id) = None
         THEN OpEnds(t, "update_user", RowIsGone)
         ELSE OpEnds(t, "update_user",
                     Return(FirstById(rows.val, uq[t].user.id)))
    /\ UNCHANGED <<store, tables, nextId, logins, srvVars, imgVars, predVars,
                   healthVars>>

\* change_password lines 282-289 (POST /change-password): the old password
\* is checked against the hash of the row read here
ChangePasswordSelect(t) ==
    /\ uq[t].pc = "idle"
    /\ \E user_id \in UserIds, old_password \in Passwords,
          new_password \in Passwords, s \in SessionOutcomes, ok \in BOOLEAN :
         LET user == SelectById(s, ok, user_id) IN
         IF user.kind = "raise"
         THEN OpEnds(t, "change_password", user)
         ELSE IF ~check_password_hash(user.val.password_hash, old_password)
         THEN OpEnds(t, "change_password", InvalidOldPassword)
         ELSE uq' = [uq EXCEPT ![t] = [pc |-> "commit",
                                       op |-> "change_password",
                                       new_password |-> new_password,
                                       user |-> user.val]]
    /\ UNCHANGED <<store, tables, nextId, logins, srvVars, imgVars, predVars,
                   healthVars>>

\* change_password lines 291-293: user.set_password(new_password);
\* session.commit(); return True.  The hash is salted, a new value every
\* time, so the UPDATE is always sent.
ChangePasswordCommit(t) ==
    /\ uq[t].pc = "commit"
    /\ uq[t].op = "change_password"
    /\ \E ok \in BOOLEAN :
         LET out == UpdateById(ok, uq[t].user.id) IN
         IF out.kind = "raise"
         THEN /\ OpEnds(t, "change_password", out)
              /\ UNCHANGED store
         ELSE /\ OpEnds(t, "change_password", Return(TRUE))
              /\ store' = (store \ {out.val}) \cup
                            {[out.val EXCEPT !.password_hash =
                                generate_password_hash(uq[t].new_password)]}
    /\ UNCHANGED <<tables, nextId, logins, srvVars, imgVars, predVars,
                   healthVars>>

\* drop_tables lines 160-164: the users table goes, with its rows and its
\* id sequence
DropTables ==
    /\ tables
    /\ tables' = FALSE
    /\ store' = {}
    /\ UNCHANGED <<nextId, logins, uq, srvVars, imgVars, predVars, healthVars>>

\* create_tables lines 150-158: the table is created again, empty, with a
\* new id sequence
CreateTables ==
    /\ ~tables
    /\ tables' = TRUE
    /\ nextId' = 1
    /\ UNCHANGED <<store, logins, uq, srvVars, imgVars, predVars, healthVars>>

(***************************************************************************)
(* Specifications                                                          *)
(***************************************************************************)
PredIdle ==
    /\ ppc = "off"
    /\ pprd = <<>>
    /\ pout = NoResult
    /\ ppay = NoResult

HealthIdle == hres = NoResult

\* line 17 of alzaimerpark.py has run, line 51 has not yet
LoaderIdle ==
    /\ MODEL = None
    /\ lpc = [l \in Loaders |-> "idle"]
    /\ building = [l \in Loaders |-> None]
    /\ lexc = [l \in Loaders |-> NoExc]
    /\ lres = [l \in Loaders |-> NoResult]
    /\ loads = 0
    /\ imported = "running"
    /\ clean = [l \in Loaders |-> FALSE]
    /\ since = 0
    /\ first = NoResult

InitSrv ==
    /\ LoaderIdle
    /\ artifact \in Artifacts
    /\ stdout \in {"utf-8", "ascii"}
    /\ pc = [t \in Threads |-> "idle"]
    /\ rq = [t \in Threads |-> FreshRequest]

ImgIdle ==
    /\ ipc = "off"
    /\ img = BadImage
    /\ vres = NoResult
    /\ pres = NoResult

Init == InitSrv /\ ImgIdle /\ PredIdle /\ HealthIdle /\ UserIdle

Next ==
    \/ LoadCall(MainLoader)
    \/ LoadExists(MainLoader)
    \/ LoadOpen(MainLoader)
    \/ LoadDeserialize(MainLoader)
    \/ LoadAssign(MainLoader)
    \/ LoadPrint(MainLoader)
    \/ LoadReturn(MainLoader)
    \/ LoadExcept(MainLoader)
    \/ LoadExceptReset(MainLoader)
    \/ ArtifactChange
    \/ StdoutCloses
    \/ StdoutPipeBreaks
    \/ \E t \in Threads : ReqStart(t)
    \/ \E t \in Threads : ReqJwtRequired(t)
    \/ \E t \in Threads : ReqIsModelLoaded(t)
    \/ \E t \in Threads : ReqFiles(t)
    \/ \E t \in Threads : ReqUpload(t)
    \/ \E t \in Threads : ReqPreprocess(t)
    \/ \E t \in Threads : ReqAbsenceCheck(t)
    \/ \E t \in Threads : ReqForwardStart(t)
    \/ \E t \in Threads : ReqForwardEnd(t)
    \/ \E t \in Threads : ReqMap(t)
    \/ \E t \in Threads : ReqFinish(t)

Spec == Init /\ [][Next]_vars

\* a step of the handler of a request that has arrived
ReqStep(t) ==
    \/ ReqJwtRequired(t)
    \/ ReqIsModelLoaded(t)
    \/ ReqFiles(t)
    \/ ReqUpload(t)
    \/ ReqPreprocess(t)
    \/ ReqAbsenceCheck(t)
    \/ ReqForwardStart(t)
    \/ ReqForwardEnd(t)
    \/ ReqMap(t)

\* the server of a deployment without a model file, after its import
SrvIdle ==
    /\ MODEL = None
    /\ lpc = [l \in Loaders |-> "idle"]
    /\ building = [l \in Loaders |-> None]
    /\ lexc = [l \in Loaders |-> NoExc]
    /\ lres = [l \in Loaders |-> IF l = MainLoader THEN Return(None) ELSE NoResult]
    /\ loads = 1
    /\ imported = "done"
    /\ clean = [l \in Loaders |-> FALSE]
    /\ since = 1
    /\ first = LoadedState(None, "missing")
    /\ artifact = "missing"
    /\ stdout = "utf-8"
    /\ pc = [t \in Threads |-> "idle"]
    /\ rq = [t \in Threads |-> FreshRequest]

InitImage == InitImg /\ SrvIdle /\ PredIdle /\ HealthIdle /\ UserIdle

NextImg ==
    \/ Validate
    \/ Preprocess

SpecImg == InitImage /\ [][NextImg]_vars

NextHealth ==
    \/ LoadCall(MainLoader)
    \/ LoadExists(MainLoader)
    \/ LoadOpen(MainLoader)
    \/ LoadDeserialize(MainLoader)
    \/ LoadAssign(MainLoader)
    \/ LoadPrint(MainLoader)
    \/ LoadReturn(MainLoader)
    \/ LoadExcept(MainLoader)
    \/ LoadExceptReset(MainLoader)
    \/ ArtifactChange
    \/ StdoutCloses
    \/ StdoutPipeBreaks
    \/ Health

SpecHealth == Init /\ [][NextHealth]_vars

\* SpecLoad: two threads calling load_model/reload_model, with no request
NextLoad ==
    \/ \E l \in Loaders : LoadCall(l)
    \/ \E l \in Loaders : LoadExists(l)
    \/ \E l \in Loaders : LoadOpen(l)
    \/ \E l \in Loaders : LoadDeserialize(l)
    \/ \E l \in Loaders : LoadAssign(l)
    \/ \E l \in Loaders : LoadPrint(l)
    \/ \E l \in Loaders : LoadReturn(l)
    \/ \E l \in Loaders : LoadExcept(l)
    \/ \E l \in Loaders : LoadExceptReset(l)
    \/ ArtifactChange
    \/ StdoutCloses
    \/ StdoutPipeBreaks

SpecLoad == Init /\ [][NextLoad]_vars

\* SpecUser: concurrent registrations on an empty users table, with a
\* caller of delete_user
InitUser == SrvIdle /\ ImgIdle /\ PredIdle /\ HealthIdle /\ UserIdle

NextUser ==
    \/ \E t \in RegThreads : RegValidate(t)
    \/ \E t \in RegThreads : RegQuery(t)
    \/ \E t \in RegThreads : RegCommit(t)
    \/ \E t \in RegThreads : RegRefresh(t)
    \/ \E t \in RegThreads \cup {FirstOp} : UserFinish(t)
    \/ DeleteUserSelect(FirstOp)
    \/ DeleteUserCommit(FirstOp)
    \/ DropTables
    \/ CreateTables

SpecUser == InitUser /\ [][NextUser]_vars

\* SpecLogin: logins, with a caller of delete_user, update_user and
\* change_password, on a users table that registrations have filled: no
\* account, an account for a@x.io, or one for each email
RegisteredStores ==
    {{},
     {NewUser(1, EmailA, Passw0rd1)},
     {NewUser(1, EmailA, Passw0rd1), NewUser(2, EmailB, Passw0rd2)}}

InitLogin ==
    /\ SrvIdle /\ ImgIdle /\ PredIdle /\ HealthIdle
    /\ store \in RegisteredStores
    /\ tables = TRUE
    /\ nextId = Cardinality(store) + 1
    /\ logins = 0
    /\ uq = [t \in UserThreads |-> IdleRequest]

NextLogin ==
    \/ \E t \in LoginThreads : LoginStart(t)
    \/ \E t \in LoginThreads : LoginAuthenticate(t)
    \/ \E t \in LoginThreads : LoginCommit(t)
    \/ \E t \in LoginThreads : LoginRefresh(t)
    \/ \E t \in LoginThreads \cup {FirstOp} : UserFinish(t)
    \/ DeleteUserSelect(FirstOp)
    \/ DeleteUserCommit(FirstOp)
    \/ UpdateUserSelect(FirstOp)
    \/ UpdateUserCommit(FirstOp)
    \/ UpdateUserRefresh(FirstOp)
    \/ ChangePasswordSelect(FirstOp)
    \/ ChangePasswordCommit(FirstOp)
    \/ DropTables
    \/ CreateTables

SpecLogin == InitLogin /\ [][NextLogin]_vars

\* SpecOps: two callers of delete_user, update_user and change_password on
\* a filled users table, interleaved at every round trip
NextOps ==
    \/ \E t \in OpThreads : DeleteUserSelect(t)
    \/ \E t \in OpThreads : DeleteUserCommit(t)
    \/ \E t \in OpThreads : UpdateUserSelect(t)
    \/ \E t \in OpThreads : UpdateUserCommit(t)
    \/ \E t \in OpThreads : UpdateUserRefresh(t)
    \/ \E t \in OpThreads : ChangePasswordSelect(t)
    \/ \E t \in OpThreads : ChangePasswordCommit(t)
    \/ \E t \in OpThreads : UserFinish(t)
    \/ DropTables
    \/ CreateTables

SpecOps == InitLogin /\ [][NextOps]_vars

(***************************************************************************)
(* SpecPred: image_prediction's result and its mapping, for every output   *)
(* of the classifier in a bounded domain: one row (one input tensor) of    *)
(* 1..MaxClasses probabilities.                                            *)
(***************************************************************************)
ProbVals == {0, 20, 40, 60}

InitPred ==
    /\ ppc = "start"
    /\ \E n \in 1..MaxClasses : \E row \in [1..n -> ProbVals] : pprd = <<row>>
    /\ pout = NoResult
    /\ ppay = NoResult
    /\ SrvIdle
    /\ ImgIdle
    /\ HealthIdle
    /\ UserIdle

\* lines 147-164 of image_prediction
BuildResult ==
    /\ ppc = "start"
    /\ pout' = Return(PredictionResult(pprd))
    /\ ppc' = "result"
    /\ UNCHANGED <<pprd, ppay, srvVars, imgVars, healthVars, userVars>>

\* lines 88-135 of predict
MapResult ==
    /\ ppc = "result"
    /\ ppay' = MapToPayload(pout.val)
    /\ ppc' = "done"
    /\ UNCHANGED <<pprd, pout, srvVars, imgVars, healthVars, userVars>>

NextPred ==
    \/ BuildResult
    \/ MapResult

SpecPred == InitPred /\ [][NextPred]_vars

(***************************************************************************)
(* Claims                                                                  *)
(***************************************************************************)
Answered(t) == rq[t].resp # NoResult

\* the exception type image_prediction gives a runtime failure of the
\* forward pass
RuntimeFailureKind ==
    ImagePredictionExcept(Raise("ResourceExhaustedError", <<"OOM">>)).type

\* C1: a call of image_prediction that finds MODEL absent fails with an error
\* kind that differs from the kind of a runtime inference failure, and the
\* forward pass is not invoked in that call.
C1_AbsentCallFailsAsModelUnavailable ==
    \A t \in Threads :
        rq[t].seen = None =>
            /\ rq[t].pred.kind = "raise"
            /\ rq[t].pred.type # RuntimeFailureKind
            /\ \A k \in 1..Len(rq[t].events) : rq[t].events[k] # "forward"

\* C2: no call passes the absence check of line 142 and then reaches the
\* forward pass of line 146 with an absent handle.
C2_AbsenceFailsOnlyAtTheCheck ==
    \A t \in Threads :
        (rq[t].seen # Unread /\ rq[t].seen # None) => rq[t].m # None

\* C3: every value MODEL holds, and every value a request reads from it, is
\* None or a completely loaded model.
AbsentOrComplete(v) == v = None \/ (v # Unread /\ v.complete)

C3_HandleIsAbsentOrComplete ==
    /\ AbsentOrComplete(MODEL)
    /\ \A t \in Threads :
        /\ rq[t].seen # Unread => AbsentOrComplete(rq[t].seen)
        /\ rq[t].m # Unread => AbsentOrComplete(rq[t].m)

\* a forward pass is running on a loaded model while a reload is building
\* the next one
C3_Witness ==
    /\ lpc[MainLoader] = "deser"
    /\ building[MainLoader] # None
    /\ ~building[MainLoader].complete
    /\ \E t \in Threads :
        /\ pc[t] = "forward"
        /\ rq[t].m # Unread
        /\ rq[t].m # None
        /\ rq[t].m.complete
        /\ rq[t].m.net # building[MainLoader].net

\* the load_model call that loader l finished failed to load: the model file
\* was missing or did not deserialize
FailedLoad(l) ==
    /\ lpc[l] = "idle"
    /\ lres[l] # NoResult
    /\ \/ lres[l] = Return(None)
       \/ /\ lres[l].kind = "raise"
          /\ lres[l].context.type \in {"FileNotFoundError", "OSError"}

\* C4: a failed load raises nothing out of load_model: it returns None and
\* leaves MODEL absent (is_model_loaded() false); an inference call that then
\* finds the handle absent is refused, while preprocessing gives what it
\* gives with a model.
C4_FailedLoadIsNotFatal ==
    /\ FailedLoad(MainLoader) =>
          /\ lres[MainLoader] = Return(None)
          /\ MODEL = None
          /\ ~is_model_loaded(MODEL)
          /\ ~get_model_info(MODEL, artifact).loaded
    /\ \A t \in Threads :
        /\ rq[t].seen = None =>
              /\ rq[t].pred.kind = "raise"
              /\ \A k \in 1..Len(rq[t].events) : rq[t].events[k] # "forward"
        /\ rq[t].tensor # NoResult =>
              rq[t].tensor = preprocess_image_from_bytes(rq[t].image)

\* C5: a /predict request that finds the model not loaded is answered 503
\* 'Model not available', and nothing was read, uploaded, preprocessed or
\* inferred in it.
C5_NotLoadedAnswers503 ==
    [][\A t \in Threads :
          (pc[t] = "is_model_loaded" /\ pc'[t] # pc[t] /\ ~is_model_loaded(MODEL)) =>
              /\ pc'[t] = "done"
              /\ rq'[t].resp = Response(503, "Model not available")
              /\ rq'[t].events = <<"is_model_loaded">>
              /\ rq'[t].image = None
              /\ rq'[t].tensor = NoResult
              /\ rq'[t].pred = NoResult]_vars

\* a request was answered 503 after a reload had emptied the handle
C5_Witness ==
    /\ loads >= 2
    /\ \E t \in Threads :
        /\ pc[t] = "done"
        /\ rq[t].resp = Response(503, "Model not available")

\* C6: a request whose image preprocess_image_from_bytes refuses (rejected by
\* the validator, or not decodable) is answered with a 4xx status.
C6_PreprocessingErrorIs4xx ==
    \A t \in Threads :
        (Answered(t) /\ rq[t].tensor.kind = "raise") =>
            (rq[t].resp.status >= 400 /\ rq[t].resp.status <= 499)

(***************************************************************************)
(* Claims about the image functions (SpecImg)                              *)
(***************************************************************************)
\* the claim's measure, taken pixel by pixel: the sum over the pixels of
\* |R-G| + |G-B| + |R-B|; the sum of the three means is this over N
RECURSIVE PairwiseDiffSum(_, _)
PairwiseDiffSum(px, k) ==
    IF k = 0 THEN 0
    ELSE Abs(px[k][1] - px[k][2]) + Abs(px[k][2] - px[k][3])
         + Abs(px[k][1] - px[k][3]) + PairwiseDiffSum(px, k - 1)

UniformlyGray(im) ==
    /\ im.kind = "ok"
    /\ \A k \in 1..Len(im.px) :
         \A b \in 1..Bands(im.mode) : im.px[k][b] = im.px[k][1]

\* C7: a decodable 3-channel image whose summed mean pairwise channel
\* difference exceeds 20 is rejected; a uniformly gray image is accepted.
C7_ColourRejectedGrayAccepted ==
    vres # NoResult =>
        /\ (img.kind = "ok" /\ Bands(img.mode) = 3
              /\ PairwiseDiffSum(img.px, Len(img.px)) > 20 * Len(img.px))
             => (vres.kind = "return" /\ ~vres.val.is_valid)
        /\ UniformlyGray(img) => (vres.kind = "return" /\ vres.val.is_valid)

\* a two-pixel RGB image just over the threshold has been rejected
C7_Witness ==
    /\ vres # NoResult
    /\ img.kind = "ok"
    /\ img.mode = "RGB"
    /\ Len(img.px) = 2
    /\ PairwiseDiffSum(img.px, 2) = 42
    /\ ~vres.val.is_valid

\* C8: when decoding or the channel computation fails inside the validator,
\* it raises nothing and accepts the image with the reason 'Validation
\* skipped due to error.'
C8_ValidationErrorIsSkipped ==
    (vres # NoResult /\ ValidateTry(img).kind = "raise") =>
        vres = Return([is_valid |-> TRUE, reason |-> REASON_SKIPPED])

\* the channel computation failed on a two-channel image, which was accepted
C8_Witness ==
    /\ vres # NoResult
    /\ img.kind = "ok"
    /\ img.mode = "LA"
    /\ vres.val.is_valid
    /\ vres.val.reason = REASON_SKIPPED

\* C9: every decodable 1-channel (grayscale) or 4-channel (RGBA) image, of
\* any size, that validation accepts is preprocessed to a tensor of shape
\* (1, 150, 150, 3).  The 1-channel images are those of the modes 1, L and P.
C9_GrayAndRgbaShape ==
    (pres # NoResult /\ img.kind = "ok" /\ Bands(img.mode) \in {1, 4}
       /\ vres.val.is_valid)
        => (pres.kind = "return" /\ pres.val.shape = <<1, 150, 150, 3>>)

\* C10: every tensor preprocess_image_from_bytes returns has 3 channels.
C10_TensorHasThreeChannels ==
    pres.kind = "return" => pres.val.shape[Len(pres.val.shape)] = 3

\* the text t is one of the parts the message msg is made of
Carries(msg, t) == \E k \in 1..Len(msg) : msg[k] = t

\* C11: when the validator rejects the image, preprocess_image_from_bytes
\* returns no tensor: it raises the preprocessing error (ValueError), whose
\* message carries the validator's reason, the 'color photograph' text.
C11_RejectionReasonIsCarried ==
    (pres # NoResult /\ ~vres.val.is_valid) =>
        /\ pres.kind = "raise"
        /\ pres.type = "ValueError"
        /\ Carries(pres.msg, vres.val.reason)
        /\ vres.val.reason = REASON_COLOR

\* a colourful RGBA image was rejected and preprocessing raised
C11_Witness ==
    /\ ipc = "done"
    /\ img.kind = "ok"
    /\ img.mode = "RGBA"
    /\ ~vres.val.is_valid
    /\ pres.kind = "raise"
    /\ Carries(pres.msg, REASON_COLOR)

\* C12: whatever fails inside preprocess_image_from_bytes (validation,
\* decoding, resizing, channel handling) leaves it as a ValueError with the
\* message 'Failed to preprocess image: ...' followed by the cause.
C12_OnlyPreprocessingErrorEscapes ==
    pres.kind = "raise" =>
        /\ pres.type = "ValueError"
        /\ Len(pres.msg) >= 2
        /\ pres.msg[1] = "Failed to preprocess image: "

\* the channel conversion failed inside cv2 on a 1-bit image and left as a
\* ValueError
C12_Witness ==
    /\ ipc = "done"
    /\ img.kind = "ok"
    /\ img.mode = "1"
    /\ pres.kind = "raise"
    /\ pres.type = "ValueError"
    /\ Carries(pres.msg, "src data type = bool is not supported")


RECURSIVE SeqSum(_)
SeqSum(row) == IF row = <<>> THEN 0 ELSE row[1] + SeqSum(Tail(row))

\* C13: for every probability vector the classifier returns for one tensor,
\* class_id is the lowest index holding the maximum probability and
\* confidence is that maximum: confidence = row[class_id] = max(row).
C13_ClassIdIsFirstArgmax ==
    pout # NoResult =>
        LET row == pprd[1]
            r == pout.val
        IN  /\ r.class_id \in 0..(Len(row) - 1)
            /\ \A j \in 1..Len(row) : row[j] <= row[r.class_id + 1]
            /\ \A j \in 1..r.class_id : row[j] < row[r.class_id + 1]
            /\ r.confidence = row[r.class_id + 1]
            /\ r.confidence = r.raw_probabilities[1][r.class_id + 1]

C13_Witness ==
    /\ ppc = "done"
    /\ pprd = <<(<<40, 40, 20>>)>>
    /\ pout.val.class_id = 0
    /\ pout.val.confidence = 40

\* C14: in every result image_prediction returns, raw_probabilities holds
\* exactly 3 probabilities (summing to 1.0) in class-index order and class_id
\* is 0, 1 or 2.  Probabilities are in hundredths, so 1.0 is 100; the nesting
\* of raw_probabilities (one row per input tensor) is read through.
C14_ThreeProbabilitiesAndClassIdInRange ==
    (pout # NoResult /\ SeqSum(pprd[1]) = 100) =>
        /\ Len(pout.val.raw_probabilities[1]) = 3
        /\ pout.val.raw_probabilities[1] = pprd[1]
        /\ SeqSum(pout.val.raw_probabilities[1]) = 100
        /\ pout.val.class_id \in {0, 1, 2}

\* C15: for every prediction result whose class_id is outside {0,1,2}, the
\* result mapping returns the payload with the CONTROL metadata entry (name,
\* full name, description, recommendation) and does not fail.
C15_UnknownClassFallsBackToControl ==
    (ppay # NoResult /\ pout.val.class_id \notin {0, 1, 2}) =>
        /\ ppay.kind = "return"
        /\ ppay.val.name = "CONTROL"
        /\ ppay.val.full_name = "Normal Brain Scan"
        /\ ppay.val.description = "The brain scan appears normal with no signs of neurological disorders."
        /\ ppay.val.recommendation = "Continue regular health monitoring. Maintain a healthy lifestyle with proper diet, exercise, and mental stimulation."

C15_Witness ==
    /\ ppc = "done"
    /\ pout.val.class_id = 3
    /\ pout.val.prediction = "Unknown"
    /\ ppay.kind = "return"
    /\ ppay.val.name = "CONTROL"

\* C16: the result mapping is total: for every result image_prediction can
\* return (any class_id, any length of probability vector), building the
\* diagnostic payload completes without raising.
C16_MappingIsTotal ==
    ppay # NoResult => ppay.kind = "return"

\* the response codes the claim lists, and those with the 401 of the JWT
\* error handlers
StructuredStatus == {200, 400, 503, 500}
StructuredStatusOr401 == StructuredStatus \cup {401}

IsStructuredResponse(r, codes) ==
    /\ "status" \in DOMAIN r
    /\ "error" \in DOMAIN r
    /\ r.status \in codes

\* a handler that has ended holds one structured response, a handler that is
\* running has not answered yet
OneStructuredResponse ==
    \A t \in Threads :
        /\ pc[t] = "done" => IsStructuredResponse(rq[t].resp, StructuredStatus)
        /\ pc[t] # "done" => rq[t].resp = NoResult

OneStructuredResponseOr401 ==
    \A t \in Threads :
        /\ pc[t] = "done" => IsStructuredResponse(rq[t].resp, StructuredStatusOr401)
        /\ pc[t] # "done" => rq[t].resp = NoResult

\* the handler is straight-line code: the order of its steps
Rank(p) ==
    CASE p = "idle" -> 0
      [] p = "jwt_required" -> 1
      [] p = "is_model_loaded" -> 2
      [] p = "files" -> 3
      [] p = "upload" -> 4
      [] p = "preprocess" -> 5
      [] p = "absence_check" -> 6
      [] p = "load_global" -> 7
      [] p = "forward" -> 8
      [] p = "map" -> 9
      [] p = "done" -> 10

\* a running handler always has a next step; the step of line 85 has no
\* guard but its position, and takes whatever preprocess_image_from_bytes
\* gives
HandlerNeverStuck ==
    \A t \in Threads :
        CASE pc[t] \in {"idle", "done"} -> TRUE
          [] pc[t] = "preprocess" ->
                preprocess_image_from_bytes(rq[t].image).kind \in {"return", "raise"}
          [] OTHER -> ENABLED ReqStep(t)

\* every step of a handler moves it forward (so it ends after at most ten
\* steps) and leaves the shared model handle as it was
HandlerAdvancesAndKeepsModel ==
    \A t \in Threads :
        (pc'[t] # pc[t] \/ rq'[t] # rq[t]) =>
            /\ Rank(pc'[t]) > Rank(pc[t]) \/ (pc[t] = "done" /\ pc'[t] = "idle")
            /\ MODEL' = MODEL

\* C17 as stated: every /predict request, whatever fails inside it,
\* terminates with exactly one structured response (200, 400, 503 or 500);
\* no exception escapes the handler and the shared model handle is left as
\* it was.  Termination is stated as progress: a running handler is never
\* stuck and each of its steps moves it forward in the fixed order of its
\* code.
C17_EveryRequestEndsInOneResponse ==
    /\ []OneStructuredResponse
    /\ []HandlerNeverStuck
    /\ [][HandlerAdvancesAndKeepsModel]_vars

\* C17, amended: every /predict request terminates with exactly one
\* structured response, whose status is 200, 400, 401, 503 or 500 (401 for a
\* request without a valid access token); no exception escapes and the
\* shared model handle is left as it was.
C17_EveryRequestEndsInOneResponseOr401 ==
    /\ []OneStructuredResponseOr401
    /\ []HandlerNeverStuck
    /\ [][HandlerAdvancesAndKeepsModel]_vars

\* a request with a valid token ended in the outer except clause, and a
\* loaded model is still in place
C17_Witness ==
    \E t \in Threads :
        /\ pc[t] = "done"
        /\ rq[t].token = "valid"
        /\ rq[t].resp.status = 500
        /\ rq[t].resp.error = "Internal server error"
        /\ MODEL # None

\* C18: reload_model is idempotent: with the model artifact unchanged,
\* calling it any number of times (n >= 1) leaves the model handle in the
\* same loaded/absent state, and is_model_loaded() and get_model_info() with
\* the same values, as calling it once.
C18_ReloadIsIdempotent ==
    ((\A l \in Loaders : lpc[l] = "idle") /\ since >= 1) =>
        /\ (MODEL = None) = (first.model = None)
        /\ MODEL = first.model
        /\ is_model_loaded(MODEL) = first.loaded
        /\ get_model_info(MODEL, artifact) = first.info

C18_Witness ==
    /\ \A l \in Loaders : lpc[l] = "idle"
    /\ since >= 2
    /\ first.loaded
    /\ MODEL # None
    /\ get_model_info(MODEL, artifact).output_shape = <<None, 3>>

C18_WitnessAbsent ==
    /\ \A l \in Loaders : lpc[l] = "idle"
    /\ since >= 2
    /\ ~first.loaded
    /\ artifact = "corrupt"

\* the call of image_prediction in request t began its forward pass and has
\* returned or raised
ForwardBegunAndEnded(t) ==
    /\ Carries(rq[t].events, "forward")
    /\ rq[t].pred # NoResult

\* C19: an inference call that has begun its forward pass on the model of a
\* previous load completes and returns that model's result even when
\* reload_model runs (successfully or not) before the call returns: the
\* result is the one of the model the call started on, and the only errors
\* are runtime failures of that forward pass.
C19_ReloadKeepsInFlightResult ==
    \A t \in Threads :
        ForwardBegunAndEnded(t) =>
            /\ rq[t].m # None
            /\ rq[t].m.complete
            /\ IF rq[t].pred.kind = "return"
               THEN /\ rq[t].pred.val.raw_probabilities =
                           NetOutput(rq[t].m.net, rq[t].tensor.val)
                    /\ rq[t].pred.val.class_id =
                           Argmax(NetOutput(rq[t].m.net, rq[t].tensor.val)[1])
               ELSE rq[t].cause = "runtime"

\* a reload put another model in place during the forward pass
C19_Witness ==
    \E t \in Threads :
        /\ pc[t] = "map"
        /\ rq[t].pred.kind = "return"
        /\ MODEL # None
        /\ MODEL # rq[t].m
        /\ NetOutput(MODEL.net, rq[t].tensor.val) # rq[t].pred.val.raw_probabilities
        /\ NetOutput(rq[t].m.net, rq[t].tensor.val) = rq[t].pred.val.raw_probabilities

\* a reload failed during the forward pass
C19_WitnessFailedReload ==
    \E t \in Threads :
        /\ pc[t] = "map"
        /\ rq[t].pred.kind = "return"
        /\ rq[t].m # None
        /\ MODEL = None

\* the steps of load_model that assign the global: line 39 and line 47
LoadAssigns ==
    /\ \E l \in Loaders :
          \/ lpc[l] = "assign" /\ lpc'[l] = "print"
          \/ lpc[l] = "reset" /\ lpc'[l] = "idle"
    /\ pc' = pc
    /\ rq' = rq

\* C21: the model handle is written only by load_model/reload_model:
\* validation, preprocessing, image_prediction, get_model_info and
\* is_model_loaded leave it unchanged on their success and failure paths.
C21_OnlyLoadWritesHandle ==
    [][(MODEL' # MODEL => LoadAssigns)
       /\ ((pc' # pc \/ rq' # rq) => MODEL' = MODEL)]_vars

\* image_prediction failed at run time, preprocessing succeeded, and the
\* handle is the one the call read
C21_Witness ==
    \E t \in Threads :
        /\ pc[t] = "done"
        /\ rq[t].tensor.kind = "return"
        /\ rq[t].pred.kind = "raise"
        /\ rq[t].cause = "runtime"
        /\ MODEL # None
        /\ MODEL = rq[t].m

\* e1 occurs in the log before e2
Before(log, e1, e2) ==
    \E i, j \in 1..Len(log) : i < j /\ log[i] = e1 /\ log[j] = e2

\* the validator's verdict on the bytes request t read
Accepted(t) == validate_image_for_medical_scan(rq[t].image).val.is_valid

\* C22: in every predict request the stages run in the order validate,
\* preprocess, inference, result mapping: the forward pass is invoked only
\* after validation accepted the image and preprocessing returned a tensor,
\* so a rejected image never reaches the classifier and never yields a
\* diagnostic payload.
C22_StagesRunInOrder ==
    \A t \in Threads :
        /\ Carries(rq[t].events, "absence_check") =>
              /\ Before(rq[t].events, "preprocess", "absence_check")
              /\ rq[t].tensor.kind = "return"
              /\ Accepted(t)
        /\ Carries(rq[t].events, "forward") =>
              Before(rq[t].events, "absence_check", "forward")
        /\ Carries(rq[t].events, "map") =>
              /\ Before(rq[t].events, "forward", "map")
              /\ rq[t].pred.kind = "return"
        /\ (rq[t].resp # NoResult /\ rq[t].resp.status = 200) =>
              Carries(rq[t].events, "map")
        /\ (rq[t].image # None /\ ~Accepted(t)) =>
              /\ ~Carries(rq[t].events, "absence_check")
              /\ ~Carries(rq[t].events, "forward")
              /\ rq[t].pred = NoResult
              /\ (rq[t].resp # NoResult => rq[t].resp.status # 200)

\* a colour image was rejected and the request ended without inference
C22_Witness ==
    \E t \in Threads :
        /\ pc[t] = "done"
        /\ rq[t].image = RedRGB
        /\ ~Accepted(t)
        /\ Carries(rq[t].events, "preprocess")
        /\ ~Carries(rq[t].events, "forward")
        /\ rq[t].resp.status = 500

\* an accepted image went through all four stages
C22_WitnessAllStages ==
    \E t \in Threads :
        /\ pc[t] = "done"
        /\ rq[t].resp.status = 200
        /\ Before(rq[t].events, "preprocess", "forward")
        /\ Before(rq[t].events, "forward", "map")

\* the extensions the spec allows, and a file name whose text after the last
\* dot, lower-cased, is none of them (or that has no dot)
AllowedExtensions ==
    {<<"p", "n", "g">>, <<"j", "p", "g">>, <<"j", "p", "e", "g">>,
     <<"g", "i", "f">>, <<"b", "m", "p">>, <<"t", "i", "f", "f">>}

HasAllowedExtension(f) ==
    \E k \in 1..Len(f) :
        /\ f[k] = "."
        /\ \A j \in (k + 1)..Len(f) : f[j] # "."
        /\ LowerStr(SubSeq(f, k + 1, Len(f))) \in AllowedExtensions

\* request t carries a named file whose extension is not allowed
SentBadExtension(t) ==
    /\ rq[t].file.present
    /\ rq[t].file.filename # <<>>
    /\ ~HasAllowedExtension(rq[t].file.filename)

\* nothing of request t was read, uploaded, preprocessed or inferred
NoBytesProcessed(t) ==
    /\ rq[t].image = None
    /\ ~Carries(rq[t].events, "read")
    /\ ~Carries(rq[t].events, "upload")
    /\ ~Carries(rq[t].events, "preprocess")
    /\ ~Carries(rq[t].events, "forward")

InvalidFileType(r) == r.status = 400 /\ r.error = "Invalid file type"

\* C23 as stated: a /predict request whose uploaded filename has no extension
\* or an extension outside {png, jpg, jpeg, gif, bmp, tiff} is answered 400
\* 'Invalid file type', and for that request no bytes are uploaded,
\* preprocessed or passed to inference.
C23_BadExtensionAnswered400 ==
    \A t \in Threads :
        SentBadExtension(t) =>
            /\ NoBytesProcessed(t)
            /\ pc[t] = "done" => InvalidFileType(rq[t].resp)

\* C23, amended: such a request is answered 400 'Invalid file type' when it
\* reaches the extension check (its token is valid, the model is loaded at
\* line 36 and the body is read); before that it is answered 401, 503 or
\* 500.  Whatever the answer, none of its bytes are uploaded, preprocessed or
\* passed to inference.
C23_BadExtensionStopsAtTheCheck ==
    \A t \in Threads :
        SentBadExtension(t) =>
            /\ NoBytesProcessed(t)
            /\ pc[t] = "done" =>
                  \/ InvalidFileType(rq[t].resp)
                  \/ /\ rq[t].filename = <<>>
                     /\ rq[t].resp.status \in {401, 503, 500}
            /\ (pc[t] = "done" /\ rq[t].filename # <<>>) =>
                  InvalidFileType(rq[t].resp)

\* a double extension whose last part is not allowed was refused
C23_Witness ==
    \E t \in Threads :
        /\ pc[t] = "done"
        /\ SentBadExtension(t)
        /\ rq[t].file.filename = <<"a", ".", "p", "n", "g", ".", "e", "x", "e">>
        /\ rq[t].filename = rq[t].file.filename
        /\ InvalidFileType(rq[t].resp)
        /\ NoBytesProcessed(t)

\* the static metadata of the three classes, by class id
MetadataOf(class_id) ==
    CASE class_id = 0 ->
            <<"CONTROL", "Normal Brain Scan",
              "The brain scan appears normal with no signs of neurological disorders.",
              "Continue regular health monitoring. Maintain a healthy lifestyle with proper diet, exercise, and mental stimulation.">>
      [] class_id = 1 ->
            <<"AD", "Alzheimer's Disease",
              "The scan shows patterns consistent with Alzheimer's disease, characterized by brain tissue changes.",
              "Consult with a neurologist for comprehensive evaluation and potential treatment options. Early intervention may help manage symptoms.">>
      [] class_id = 2 ->
            <<"PD", "Parkinson's Disease",
              "The scan indicates patterns associated with Parkinson's disease, affecting movement and motor functions.",
              "Schedule an appointment with a movement disorder specialist. Physical therapy and medication may help manage symptoms.">>

\* C24: the payload's metadata is a pure function of the predicted label:
\* class_id 0, 1, 2 always yield the CONTROL, AD, PD entries, so two results
\* with the same class_id receive identical name, full_name, description and
\* recommendation whatever their probabilities.
C24_MetadataFollowsClassId ==
    (ppay # NoResult /\ ppay.kind = "return" /\ pout.val.class_id \in {0, 1, 2}) =>
        <<ppay.val.name, ppay.val.full_name, ppay.val.description,
          ppay.val.recommendation>> = MetadataOf(pout.val.class_id)

\* class 2 wins with a probability row that also has class 1 high
C24_Witness ==
    /\ ppc = "done"
    /\ pprd = <<(<<0, 40, 60>>)>>
    /\ pout.val.class_id = 2
    /\ ppay.kind = "return"
    /\ ppay.val.name = "PD"
    /\ ppay.val.full_name = "Parkinson's Disease"

C26_HealthFollowsModel ==
    hres # NoResult =>
        IF hres.loaded
        THEN /\ hres.resp.code = 200
             /\ hres.resp.status = "healthy"
             /\ "model_loaded" \in DOMAIN hres.resp
             /\ hres.resp.model_loaded
        ELSE /\ hres.resp.code = 503
             /\ hres.resp.status = "unhealthy"
             /\ "model_loaded" \in DOMAIN hres.resp
             /\ ~hres.resp.model_loaded

\* C27: after any sequence of load_model/reload_model calls the handle
\* reflects only the most recent attempt: it is loaded iff that attempt
\* succeeded (a failed reload after a successful load leaves it absent), and
\* is_model_loaded() and get_model_info()['loaded'] agree with the handle in
\* every reachable state.  An attempt succeeded when load_model returned a
\* model.
C27_HandleReflectsLatestAttempt ==
    /\ is_model_loaded(MODEL) = (MODEL # None)
    /\ get_model_info(MODEL, artifact).loaded = (MODEL # None)
    /\ (imported = "done" /\ lpc[MainLoader] = "idle") =>
          (MODEL # None) = (/\ lres[MainLoader].kind = "return"
                            /\ lres[MainLoader].val # None)

\* request t passed the model, file and extension checks
PassedTheChecks(t) ==
    /\ rq[t].filename # <<>>
    /\ HasAllowedExtension(rq[t].filename)
    /\ pc[t] \notin {"jwt_required", "is_model_loaded", "files"}

\* C28: in every /predict request that passes the model, file and extension
\* checks, the upload to object storage is attempted before validation and
\* preprocessing; if it fails, neither preprocessing nor inference runs and
\* the response is 500; preprocessing or inference is reached only after
\* the upload has succeeded.
C28_UploadComesFirst ==
    \A t \in Threads :
        /\ (PassedTheChecks(t) /\ pc[t] # "upload") =>
              /\ rq[t].upload # NoResult
              /\ Carries(rq[t].events, "upload")
        /\ (Carries(rq[t].events, "preprocess") \/ Carries(rq[t].events, "forward")
              \/ rq[t].tensor # NoResult \/ rq[t].pred # NoResult) =>
              /\ rq[t].upload.kind = "return"
              /\ Before(rq[t].events, "upload", "preprocess")
        /\ rq[t].upload.kind = "raise" =>
              /\ pc[t] = "done"
              /\ rq[t].resp.status = 500
              /\ rq[t].tensor = NoResult
              /\ rq[t].pred = NoResult
              /\ ~Carries(rq[t].events, "preprocess")
              /\ ~Carries(rq[t].events, "forward")

\* an upload failed and the request ended with 500 before preprocessing
C28_Witness ==
    \E t \in Threads :
        /\ pc[t] = "done"
        /\ PassedTheChecks(t)
        /\ rq[t].upload.kind = "raise"
        /\ rq[t].resp.status = 500
        /\ rq[t].resp.error = "Processing failed"
        /\ rq[t].tensor = NoResult

\* no two rows of the users table share an email
NoSharedEmail == \A u, v \in store : u.email = v.email => u = v

\* C29: after any sequence of registrations, including concurrent ones for
\* the same email, no two stored users share an email; every registration
\* attempt for an email that already has an account is answered 409 'Email
\* already registered' and leaves the user store unchanged.  The attempts
\* considered are those with a well-formed body; dup says that the table
\* held a row for the email when create_user read or wrote it.
C29_DuplicateEmailAnswered409 ==
    /\ NoSharedEmail
    /\ \A t \in RegThreads :
          (uq[t].pc = "done" /\ uq[t].valid /\ uq[t].dup) =>
              /\ uq[t].resp.status = 409
              /\ uq[t].resp.error = "Email already registered"
              /\ ~uq[t].created

\* C30: a login with the correct email and password of a deactivated account
\* is answered 401 with error 'Account deactivated', issues no access token
\* and does not update last_login.  found is the row authenticate_user read,
\* updated tells whether it wrote last_login.
C30_DeactivatedLoginIsRefused ==
    \A t \in LoginThreads :
        (/\ uq[t].pc = "done"
         /\ uq[t].found # None
         /\ ~uq[t].found.is_active
         /\ check_password_hash(uq[t].found.password_hash, uq[t].password)) =>
            /\ uq[t].resp.status = 401
            /\ uq[t].resp.error = "Account deactivated"
            /\ "access_token" \notin DOMAIN uq[t].resp
            /\ ~uq[t].updated

====
